---- MODULE Spec2Model ----
(***************************************************************************)
(* Learning session engine of lang-focus-tg-bot: LearningSessionManager    *)
(* (learning/session_manager.py), ProgressTracker                          *)
(* (learning/progress_tracker.py) and the callback handlers that drive     *)
(* them (handlers/learning.py), over the tables of models/learning.py.     *)
(*                                                                         *)
(* Every coroutine is cut at its awaits on the database: one action is one *)
(* SQL statement together with the Python around it, so that the tasks of  *)
(* the event loop interleave exactly where the code can be suspended.      *)
(***************************************************************************)
EXTENDS Integers, Sequences, FiniteSets, TLC

(***************************************************************************)
(* Bounds of the model.                                                    *)
(***************************************************************************)
NumTasks == 2
NumUsers == 1
MaxSessions == 2
MaxResponses == 2
MaxAttempts == 2
MaxDaysBack == 6
MaxDays == 8
MaxErrors == 1
MaxStartDelay == 1

(***************************************************************************)
(* Program constants.                                                      *)
(***************************************************************************)
NumTricks == 14

\* reminder_scheduler.py: a day in the model's unit of time, the hour; the
\* hour of the daily check; the back-off; the window of a reminder; the
\* number of PROMOTIONAL_MESSAGES
HoursPerDay == 24
TriggerHour == 12
BackoffHours == 1
ReminderDays == 7
NumMessages == 3

Max(a, b) == IF a >= b THEN a ELSE b
Min(a, b) == IF a <= b THEN a ELSE b

(***************************************************************************)
(* IEEE-754 binary64 arithmetic, as far as update_progress uses it.  A     *)
(* finite non-negative double is [m, e]: the natural number m times 2^-e,  *)
(* m written in limbs of 14 bits, least significant first, no leading      *)
(* zero limb (machine integers cannot hold 53 bits).  Python's float       *)
(* operations round the exact result to 53 significant bits, ties to       *)
(* even; int() truncates.                                                  *)
(***************************************************************************)
LimbBits == 7 + 7
Base == 2 ^ LimbBits

Limb(l, i) == IF i <= Len(l) THEN l[i] ELSE 0

\* l without its leading zero limbs
TrimLimbs(l) ==
    LET used == {i \in 1..Len(l) : l[i] # 0}
    IN  SubSeq(l, 1, IF used = {} THEN 0 ELSE CHOOSE i \in used : \A j \in used : j <= i)

\* carry (or borrow) propagation over limbs that are out of range
Normalize(l) ==
    LET carry[i \in 0..Len(l)] ==
            IF i = 0 THEN 0 ELSE (l[i] + carry[i - 1]) \div Base
    IN  TrimLimbs([i \in 1..(Len(l) + 1) |-> (Limb(l, i) + carry[i - 1]) % Base])

AddLimbs(a, b) ==
    IF a = <<>> THEN b
    ELSE IF b = <<>> THEN a
    ELSE Normalize([i \in 1..Max(Len(a), Len(b)) |-> Limb(a, i) + Limb(b, i)])

\* a - b for a >= b
SubLimbs(a, b) ==
    IF b = <<>> THEN a
    ELSE Normalize([i \in 1..Len(a) |-> a[i] - Limb(b, i)])

\* a * n for a machine integer n < 2^14
ScaleLimbs(a, n) ==
    IF a = <<>> \/ n = 0 THEN <<>>
    ELSE Normalize([i \in 1..Len(a) |-> a[i] * n])

\* a * 2^s
ShiftLimbs(a, s) ==
    IF a = <<>> \/ s = 0 THEN a
    ELSE [i \in 1..(s \div LimbBits) |-> 0] \o ScaleLimbs(a, 2 ^ (s % LimbBits))

\* a * b, b little: every limb of b below 2^14, and at most two of them
MulLimbs(a, b) ==
    AddLimbs(ScaleLimbs(a, Limb(b, 1)), ShiftLimbs(ScaleLimbs(a, Limb(b, 2)), LimbBits))

\* bit j of a, the least significant being bit 1
BitAt(a, j) == (Limb(a, (j - 1) \div LimbBits + 1) \div 2 ^ ((j - 1) % LimbBits)) % 2

BitLen(a) ==
    IF a = <<>> THEN 0
    ELSE LimbBits * (Len(a) - 1)
            + (CHOOSE k \in 1..LimbBits : 2 ^ (k - 1) <= a[Len(a)] /\ a[Len(a)] < 2 ^ k)

\* a with its d low bits cleared
ClearLow(a, d) ==
    [i \in 1..Len(a) |->
        IF i <= d \div LimbBits THEN 0
        ELSE IF i = d \div LimbBits + 1
             THEN (a[i] \div 2 ^ (d % LimbBits)) * 2 ^ (d % LimbBits)
             ELSE a[i]]

IntToLimbs(n) == Normalize(<<n>>)

\* round to nearest, ties to even, at 53 significant bits
RoundToDouble(m, e) ==
    IF BitLen(m) <= 53 THEN [m |-> m, e |-> e]
    ELSE LET d      == BitLen(m) - 53
             sticky == \E j \in 1..(d - 1) : BitAt(m, j) = 1
             up     == BitAt(m, d) = 1 /\ (sticky \/ BitAt(m, d + 1) = 1)
             down   == TrimLimbs(ClearLow(m, d))
         IN  [m |-> IF up THEN AddLimbs(down, ShiftLimbs(<<1>>, d)) ELSE down,
              e |-> e]

FloatOfInt(n) == [m |-> IntToLimbs(n), e |-> 0]

\* x * y, where y.m is little (an int or a score)
FloatMul(x, y) ==
    IF x.m = <<>> \/ y.m = <<>> THEN FloatOfInt(0)
    ELSE RoundToDouble(MulLimbs(x.m, y.m), x.e + y.e)

FloatAdd(x, y) ==
    IF x.e >= y.e
    THEN RoundToDouble(AddLimbs(x.m, ShiftLimbs(y.m, x.e - y.e)), x.e)
    ELSE RoundToDouble(AddLimbs(ShiftLimbs(x.m, y.e - x.e), y.m), y.e)

\* x - y for x >= y
FloatSub(x, y) ==
    IF x.e >= y.e
    THEN RoundToDouble(SubLimbs(x.m, ShiftLimbs(y.m, x.e - y.e)), x.e)
    ELSE RoundToDouble(SubLimbs(ShiftLimbs(x.m, y.e - x.e), y.m), y.e)

\* int(x) for 0 <= x < 2^14
FloatToInt(x) ==
    LET q == x.e \div LimbBits
        r == x.e % LimbBits
    IN  (Limb(x.m, q + 1) + Base * Limb(x.m, q + 2)) \div 2 ^ r

(***************************************************************************)
(* Scores.  ResponseAnalysis.score is a float; the model carries it in     *)
(* half points (170 is the score 85.0, 171 is 85.5), which are doubles.    *)
(***************************************************************************)
ScoreFloat(score) == [m |-> IntToLimbs(score), e |-> 1]

\* the literal 0.3 is the double 0x13333333333333 * 2^-54; its limbs are
\* 0x4CC, 0x3333, 0xCCC, 0x3333 from the most significant down
score_weight == [m |-> <<13107, 3276, 13107, 1228>>, e |-> 54]

\* new_mastery of an existing record
NewMastery(current_mastery, score) ==
    LET new_mastery ==
            FloatToInt(FloatAdd(
                FloatMul(FloatSub(FloatOfInt(1), score_weight),
                         FloatOfInt(current_mastery)),
                FloatMul(score_weight, ScoreFloat(score))))
    IN  Max(0, Min(100, new_mastery))

\* initial_mastery of a new record
InitialMastery(score) == FloatToInt(ScoreFloat(score))

\* answers of the Scoring Oracle: 3.0 wrong, 85.5 right, 100.0 right
Analyses ==
    {[score |-> 6, is_correct |-> FALSE],
     [score |-> 171, is_correct |-> TRUE],
     [score |-> 200, is_correct |-> TRUE]}

\* the answers to a response of a session: 3.0 wrong, 85.5 right
ResponseAnalyses == {a \in Analyses : a.score < 2 * 100}

\* the confidences of the keyword classifier for tricks of one, two or four
\* keywords: 0.0, 25.0, 50.0, 75.0, 100.0
FallbackScores == {0, 50, 100, 150, 200}

\* answers around the score of a trick mastered in the session: 79.5 and
\* right, 80.0 and wrong
SummaryAnalyses ==
    {[score |-> 159, is_correct |-> TRUE],
     [score |-> 160, is_correct |-> FALSE]}

\* answers around the average masteries that change the difficulty: 39.5,
\* 40.0, 69.5, 70.0
DifficultyAnalyses ==
    {[score |-> 79, is_correct |-> FALSE],
     [score |-> 80, is_correct |-> TRUE],
     [score |-> 139, is_correct |-> TRUE],
     [score |-> 140, is_correct |-> TRUE]}

\* the scores of the model
Scores ==
    {a.score : a \in Analyses \cup SummaryAnalyses \cup DifficultyAnalyses}
        \cup FallbackScores

\* new_mastery and initial_mastery for the scores of the model, computed once
new_mastery ==
    [current_mastery \in 0..100 |->
        [score \in Scores |-> NewMastery(current_mastery, score)]]

initial_mastery == [score \in Scores |-> InitialMastery(score)]

(***************************************************************************)
(* The tables of models/learning.py and the tasks of the event loop.       *)
(*                                                                         *)
(* learning_sessions and user_responses are sequences of rows, the primary *)
(* key being the position; started_at is CURRENT_TIMESTAMP at the insert,  *)
(* so a later row is a later session.  user_progress is keyed by           *)
(* <<user_id, trick_id>> (unique_user_trick): a key of its domain is a row *)
(* of the table.                                                           *)
(*                                                                         *)
(* task[t] is one coroutine of the event loop: where it is suspended (pc), *)
(* the LearningSession object it holds (session), the locals of the        *)
(* operation it is in (args).  ret is what the step taken last returned,   *)
(* and to which task; [op |-> "none"] when the step returned nothing yet.  *)
(***************************************************************************)
VARIABLES learning_sessions, user_responses, user_progress, task, ret

(***************************************************************************)
(* The state of core/reminder_scheduler.py.  reminder_tracking is the      *)
(* table of alembic/versions/004, keyed by user_id (UniqueConstraint).     *)
(* scheduler is the ReminderScheduler object and its loop task: pc is the  *)
(* await the task is suspended at, "none" before start creates it,         *)
(* "finished" and "cancelled" once it has ended.  now is the clock, in     *)
(* hours.  telegram is what the scheduled sends handed to bot.send_message *)
(* (attempts: the ones of the batch in progress; delivered: per user the   *)
(* time of the last one that succeeded), errors is the number of "Error in *)
(* reminder scheduler" lines logged.                                       *)
(***************************************************************************)
VARIABLES reminder_tracking, scheduler, now, telegram, errors

reminders == <<reminder_tracking, scheduler, now, telegram, errors>>

(***************************************************************************)
(* The catalogs.  training_statements is the table of the Statement Bank:  *)
(* id -> difficulty ("easy", "medium", "hard" stand for the three values   *)
(* of check_difficulty); no operation of the program writes it.            *)
(* tricks_cache and all_tricks_cache are TrickEngine._tricks_cache (a dict *)
(* trick id -> LanguageTrick) and TrickEngine._all_tricks_cache (None or   *)
(* the list load_tricks built).                                            *)
(***************************************************************************)
VARIABLES training_statements, tricks_cache, all_tricks_cache

catalog == <<training_statements, tricks_cache, all_tricks_cache>>

vars == <<learning_sessions, user_responses, user_progress, task, ret,
          reminder_tracking, scheduler, now, telegram, errors,
          training_statements, tricks_cache, all_tricks_cache>>

Tasks == 1..NumTasks
Users == 1..NumUsers
TrickIds == 1..NumTricks

\* language_tricks holds the ids 1..14
TrickExists(trick_id) == trick_id \in TrickIds

\* the keywords of a row of language_tricks, each one a number: four of
\* the first trick, two of the second, one of every other trick
Keywords(id) ==
    IF id = 1 THEN {11, 12, 13, 14}
    ELSE IF id = 2 THEN {21, 22}
    ELSE {10 * id + 1}

\* LanguageTrick.from_db_row of the row id of language_tricks
language_tricks == [id \in TrickIds |-> [id |-> id, keywords |-> Keywords(id)]]

\* self._all_tricks_cache = None
NoTricks == [is_none |-> TRUE, tricks |-> <<>>]

\* a Statement Bank with a statement of every difficulty
SeededStatements == <<"easy", "medium", "hard">>

\* a lookup that reads the cache only
TrickLookupCacheOnly(cache, trick_id) ==
    IF trick_id \in DOMAIN cache THEN [found |-> TRUE, trick |-> cache[trick_id]]
    ELSE [found |-> FALSE, trick |-> [id |-> 0, keywords |-> {}]]

\* what get_trick_by_id returns: the cached trick, or the row of the table
TrickLookup(cache, trick_id) ==
    IF trick_id \in DOMAIN cache THEN [found |-> TRUE, trick |-> cache[trick_id]]
    ELSE IF TrickExists(trick_id)
         THEN [found |-> TRUE, trick |-> language_tricks[trick_id]]
         ELSE [found |-> FALSE, trick |-> [id |-> 0, keywords |-> {}]]

\* self._tricks_cache after get_trick_by_id(trick_id)
TrickCached(cache, trick_id) ==
    IF trick_id \in DOMAIN cache \/ ~TrickExists(trick_id) THEN cache
    ELSE (trick_id :> language_tricks[trick_id]) @@ cache

NoSession ==
    [id |-> 0, user_id |-> 0, statement_id |-> 0, status |-> "none",
     current_trick_index |-> 0, completed_at |-> "NULL"]

NoProgress ==
    [found |-> FALSE, mastery_level |-> 0, total_attempts |-> 0, correct_attempts |-> 0]

NoArgs == [op |-> "none"]
NoRet == [op |-> "none"]

IdleTask == [pc |-> "idle", session |-> NoSession, args |-> NoArgs]

\* the LearningSession built from row id of learning_sessions
SessionOfRow(id) ==
    [id |-> id,
     user_id |-> learning_sessions[id].user_id,
     statement_id |-> learning_sessions[id].statement_id,
     status |-> learning_sessions[id].status,
     current_trick_index |-> learning_sessions[id].current_trick_index,
     completed_at |-> learning_sessions[id].completed_at]

\* the lookup with the wrong status in its WHERE clause
ActiveSessionIdsCompleted(user_id) ==
    {i \in 1..Len(learning_sessions) :
        learning_sessions[i].user_id = user_id /\ learning_sessions[i].status = "completed"}

ActiveSessionIds(user_id) ==
    {i \in 1..Len(learning_sessions) :
        learning_sessions[i].user_id = user_id /\ learning_sessions[i].status = "active"}

SetMax(S) == CHOOSE m \in S : \A n \in S : n <= m

\* WHERE user_id = $1 AND status = 'active' ORDER BY started_at DESC LIMIT 1
get_active_session(user_id) ==
    IF ActiveSessionIds(user_id) = {} THEN NoSession
    ELSE SessionOfRow(SetMax(ActiveSessionIds(user_id)))

RECURSIVE SumOver(_, _)
SumOver(S, f) ==
    IF S = {} THEN 0
    ELSE LET k == CHOOSE k \in S : TRUE IN f[k] + SumOver(S \ {k}, f)

ProgressKeys(user_id) == {k \in DOMAIN user_progress : k[1] = user_id}

\* the difficulty chosen with > where the code has >=
get_adaptive_difficulty_above(user_id) ==
    LET keys  == ProgressKeys(user_id)
        total == SumOver(keys, [k \in keys |-> user_progress[k].mastery_level])
    IN  IF keys # {} /\ total > 70 * Cardinality(keys) THEN "hard"
        ELSE IF keys # {} /\ total > 40 * Cardinality(keys) THEN "medium"
        ELSE "easy"

\* AVG(mastery_level) >= 70 -> hard, >= 40 -> medium, else easy; no row: 0
get_adaptive_difficulty(user_id) ==
    LET keys  == ProgressKeys(user_id)
        total == SumOver(keys, [k \in keys |-> user_progress[k].mastery_level])
    IN  IF keys # {} /\ total >= 70 * Cardinality(keys) THEN "hard"
        ELSE IF keys # {} /\ total >= 40 * Cardinality(keys) THEN "medium"
        ELSE "easy"

\* the row SELECTed by update_progress
ProgressRow(user_id, trick_id) ==
    IF <<user_id, trick_id>> \in DOMAIN user_progress
    THEN [found |-> TRUE,
          mastery_level |-> user_progress[<<user_id, trick_id>>].mastery_level,
          total_attempts |-> user_progress[<<user_id, trick_id>>].total_attempts,
          correct_attempts |-> user_progress[<<user_id, trick_id>>].correct_attempts]
    ELSE NoProgress

\* the score stored as the oracle gave it, not divided by 100
SimilarityScoreRaw(score) == [num |-> score, den |-> 2]

\* analysis.score / 100, as the fraction num/den (score is in half points)
SimilarityScore(score) == [num |-> score, den |-> 2 * 100]

\* the comparison off by one: > 14
SessionExhaustedLate(current_index) == current_index > NumTricks

\* session.current_trick_index >= 14: all 14 tricks practiced
SessionExhausted(current_index) == current_index >= NumTricks

\* the cursor set to the trick id passed, without the max
NewIndexAssigned(current_index, completed_trick_id) == completed_trick_id

\* new_index of update_session_progress
NewIndex(current_index, completed_trick_id) == Max(current_index, completed_trick_id)

\* the attempt not counted
NewTotalSame(total_attempts) == total_attempts

\* new_total and new_correct of update_progress
NewTotal(total_attempts) == total_attempts + 1
NewCorrect(correct_attempts, is_correct) == correct_attempts + (IF is_correct THEN 1 ELSE 0)

SetTask(t, pc, session, args, returned) ==
    /\ task' = [task EXCEPT ![t] = [pc |-> pc, session |-> session, args |-> args]]
    /\ ret' = IF returned.op = "none" THEN returned ELSE [task |-> t] @@ returned

\* a nullable timestamp column
NullDate == [is_null |-> TRUE, at |-> 0]
DateAt(at) == [is_null |-> FALSE, at |-> at]

\* ReminderScheduler.__init__
NoScheduler ==
    [is_running |-> FALSE, pc |-> "none", next_run |-> 0,
     users_to_remind |-> <<>>, index |-> 0, message_index |-> 0,
     other_tasks |-> 0]

Init ==
    /\ learning_sessions = <<>>
    /\ user_responses = <<>>
    /\ user_progress = <<>>
    /\ task = [t \in Tasks |-> IdleTask]
    /\ ret = NoRet
    /\ reminder_tracking = <<>>
    /\ scheduler = NoScheduler
    /\ now = 0
    /\ telegram = [attempts |-> <<>>, delivered |-> <<>>]
    /\ errors = 0
    /\ training_statements = SeededStatements
    /\ tricks_cache = <<>>
    /\ all_tricks_cache = NoTricks

(***************************************************************************)
(* TrickEngine.  A response is the set of the keywords it contains         *)
(* (keyword.lower() in response_lower).                                    *)
(***************************************************************************)
\* the list load_tricks returns: the cached one, or the rows ORDER BY id
LoadedTricks(all_cache) ==
    IF all_cache.is_none THEN [i \in 1..NumTricks |-> language_tricks[i]]
    ELSE all_cache.tricks

\* self._tricks_cache after load_tricks
TricksCacheLoaded(cache, all_cache) ==
    IF all_cache.is_none THEN [id \in TrickIds |-> language_tricks[id]] @@ cache
    ELSE cache

\* self._all_tricks_cache after load_tricks
AllTricksCacheLoaded(all_cache) ==
    [is_none |-> FALSE, tricks |-> LoadedTricks(all_cache)]

\* (keyword_matches / total_keywords) * 100 if total_keywords > 0 else 0, in
\* half points; the quotient is a double for 1, 2 or 4 keywords
Confidence(keywords, response) ==
    IF Cardinality(keywords) > 0
    THEN (2 * 100 * Cardinality(keywords \cap response)) \div Cardinality(keywords)
    ELSE 0

\* TrickEngine.classify_response: the confidence of the target trick, then
\* the loop over all tricks, which replaces the best match by every trick of
\* a strictly higher confidence: it ends with the first trick of the highest
\* confidence above the target's, if there is one
classify_response(cache, all_cache, response, target_trick_id) ==
    LET target_trick == TrickLookup(cache, target_trick_id).trick
        confidence   == Confidence(target_trick.keywords, response)
        all_tricks   == LoadedTricks(all_cache)
        trick_confidence == [i \in 1..Len(all_tricks) |->
                                Confidence(all_tricks[i].keywords, response)]
        better == {i \in 1..Len(all_tricks) :
                        /\ all_tricks[i].id # target_trick_id
                        /\ trick_confidence[i] > confidence}
        best   == CHOOSE i \in better : \A j \in better :
                        \/ trick_confidence[j] < trick_confidence[i]
                        \/ trick_confidence[j] = trick_confidence[i] /\ i <= j
        best_match_id   == IF better = {} THEN target_trick_id ELSE all_tricks[best].id
        best_confidence == IF better = {} THEN confidence ELSE trick_confidence[best]
    IN  [detected_trick_id |-> IF best_confidence > 2 * 20 THEN best_match_id ELSE 0,
         confidence |-> best_confidence,
         keyword_matches |-> Cardinality(target_trick.keywords \cap response),
         total_keywords |-> Cardinality(target_trick.keywords)]

\* FeedbackEngine._fallback_analysis
fallback_analysis(classification) ==
    [score |-> classification.confidence,
     is_correct |-> classification.confidence >= 2 * 30]

\* the statements of any difficulty, whatever the filter
StatementPoolAny(statements, difficulty) == 1..Len(statements)

\* SELECT ... FROM training_statements [WHERE difficulty = $1]: the rows that
\* ORDER BY RANDOM() LIMIT 1 picks from; difficulty "none" is no filter
StatementPool(statements, difficulty) ==
    {i \in 1..Len(statements) : difficulty = "none" \/ statements[i] = difficulty}

\* get_random_statement(difficulty): a row of the pool, ValueError without one
GetRandomStatement(t, difficulty) ==
    /\ task[t].pc = "idle"
    /\ LET pool == StatementPool(training_statements, difficulty)
       IN  IF pool = {}
           THEN SetTask(t, "idle", task[t].session, NoArgs,
                        [op |-> "get_random_statement", difficulty |-> difficulty,
                         raised |-> "ValueError", id |-> 0])
           ELSE \E statement \in pool :
                    SetTask(t, "idle", task[t].session, NoArgs,
                            [op |-> "get_random_statement", difficulty |-> difficulty,
                             raised |-> "none", id |-> statement])
    /\ UNCHANGED <<learning_sessions, user_responses, user_progress>>
    /\ UNCHANGED reminders
    /\ UNCHANGED catalog

(***************************************************************************)
(* LearningSessionManager.start_session                                    *)
(***************************************************************************)
\* existing_session = await self.get_active_session(user_id)
StartSession(t, user_id) ==
    /\ task[t].pc = "idle"
    /\ LET existing_session == get_active_session(user_id)
       IN  IF existing_session.id # 0
           THEN SetTask(t, "idle", existing_session, NoArgs,
                        [op |-> "start_session", user_id |-> user_id,
                         id |-> existing_session.id, existing |-> TRUE])
           ELSE SetTask(t, "start_pick", task[t].session,
                        [op |-> "start_session", user_id |-> user_id], NoRet)
    /\ UNCHANGED <<learning_sessions, user_responses, user_progress>>
    /\ UNCHANGED reminders
    /\ UNCHANGED catalog

\* difficulty = await self.get_adaptive_difficulty(user_id)
\* statement = await self.data_loader.get_random_statement(difficulty)
StartPick(t) ==
    /\ task[t].pc = "start_pick"
    /\ LET difficulty == get_adaptive_difficulty(task[t].args.user_id)
           pool == StatementPool(training_statements, difficulty)
       IN  IF pool = {}
           THEN SetTask(t, "idle", task[t].session, NoArgs,
                        [op |-> "start_session", raised |-> "ValueError"])
           ELSE \E statement \in pool :
                    SetTask(t, "start_insert", task[t].session,
                            [op |-> "start_session", user_id |-> task[t].args.user_id,
                             statement_id |-> statement], NoRet)
    /\ UNCHANGED <<learning_sessions, user_responses, user_progress>>
    /\ UNCHANGED reminders
    /\ UNCHANGED catalog

\* INSERT INTO learning_sessions ... VALUES (.., 'active', 0) RETURNING id
StartInsert(t) ==
    /\ task[t].pc = "start_insert"
    /\ learning_sessions' = Append(learning_sessions,
            [user_id |-> task[t].args.user_id,
             statement_id |-> task[t].args.statement_id,
             status |-> "active",
             current_trick_index |-> 0,
             completed_at |-> "NULL"])
    /\ SetTask(t, "idle",
               [id |-> Len(learning_sessions) + 1,
                user_id |-> task[t].args.user_id,
                statement_id |-> task[t].args.statement_id,
                status |-> "active",
                current_trick_index |-> 0,
                completed_at |-> "NULL"],
               NoArgs,
               [op |-> "start_session", user_id |-> task[t].args.user_id,
                id |-> Len(learning_sessions) + 1, existing |-> FALSE])
    /\ UNCHANGED <<user_responses, user_progress>>
    /\ UNCHANGED reminders
    /\ UNCHANGED catalog

(***************************************************************************)
(* LearningSessionManager.resume_session                                   *)
(***************************************************************************)
ResumeSession(t, user_id) ==
    /\ task[t].pc = "idle"
    /\ SetTask(t, "idle", get_active_session(user_id), NoArgs,
               [op |-> "resume_session", id |-> get_active_session(user_id).id])
    /\ UNCHANGED <<learning_sessions, user_responses, user_progress>>
    /\ UNCHANGED reminders
    /\ UNCHANGED catalog

(***************************************************************************)
(* LearningSessionManager.get_next_challenge, on the session the task      *)
(* holds                                                                   *)
(***************************************************************************)
\* SELECT COUNT(..) FROM user_responses WHERE session_id = $1 AND trick_id = $2
get_attempt_number(session_id, trick_id) ==
    Cardinality({i \in 1..Len(user_responses) :
                    /\ user_responses[i].session_id = session_id
                    /\ user_responses[i].trick_id = trick_id}) + 1

Challenge(session) ==
    IF SessionExhausted(session.current_trick_index)
    THEN [found |-> FALSE]
    ELSE [found |-> TRUE,
          statement_id |-> session.statement_id,
          target_trick_id |-> session.current_trick_index + 1,
          attempt_number |->
              get_attempt_number(session.id, session.current_trick_index + 1)]

GetNextChallenge(t) ==
    /\ task[t].pc = "idle"
    /\ task[t].session.id # 0
    /\ SetTask(t, "idle", task[t].session, NoArgs,
               [op |-> "get_next_challenge", challenge |-> Challenge(task[t].session)])
    /\ tricks_cache' =
            IF SessionExhausted(task[t].session.current_trick_index) THEN tricks_cache
            ELSE TrickCached(tricks_cache, task[t].session.current_trick_index + 1)
    /\ UNCHANGED <<learning_sessions, user_responses, user_progress>>
    /\ UNCHANGED reminders
    /\ UNCHANGED <<training_statements, all_tricks_cache>>

(***************************************************************************)
(* LearningSessionManager.update_session_progress                          *)
(***************************************************************************)
\* UPDATE learning_sessions SET current_trick_index = $1 WHERE id = $2
\* session.current_trick_index = new_index
update_session_progress(t, completed_trick_id, pc, returned) ==
    LET new_index == NewIndex(task[t].session.current_trick_index, completed_trick_id)
    IN  /\ learning_sessions' =
                [learning_sessions EXCEPT ![task[t].session.id].current_trick_index = new_index]
        /\ SetTask(t, pc, [task[t].session EXCEPT !.current_trick_index = new_index],
                   NoArgs, returned)

UpdateSessionProgress(t, completed_trick_id) ==
    /\ task[t].pc = "idle"
    /\ task[t].session.id # 0
    /\ update_session_progress(t, completed_trick_id, "idle",
            [op |-> "update_session_progress",
             completed_trick_id |-> completed_trick_id])
    /\ UNCHANGED <<user_responses, user_progress>>
    /\ UNCHANGED reminders
    /\ UNCHANGED catalog

(***************************************************************************)
(* ProgressTracker.update_progress: the SELECT, then the UPDATE or INSERT  *)
(***************************************************************************)
\* SELECT mastery_level, total_attempts, correct_attempts FROM user_progress
ProgressRead(t) ==
    /\ task[t].pc = "progress_read"
    /\ SetTask(t, "progress_write", task[t].session,
               [task[t].args EXCEPT
                   !.current_progress = ProgressRow(task[t].args.user_id, task[t].args.trick_id)],
               NoRet)
    /\ UNCHANGED <<learning_sessions, user_responses, user_progress>>
    /\ UNCHANGED reminders
    /\ UNCHANGED catalog

\* the row written over an existing one
UpdatedProgress(current_progress, score, is_correct) ==
    [mastery_level |-> new_mastery[current_progress.mastery_level][score],
     total_attempts |-> NewTotal(current_progress.total_attempts),
     correct_attempts |-> NewCorrect(current_progress.correct_attempts, is_correct)]

\* the row inserted for a first attempt
CreatedProgress(score, is_correct) ==
    [mastery_level |-> initial_mastery[score],
     total_attempts |-> 1,
     correct_attempts |-> IF is_correct THEN 1 ELSE 0]

\* the CHECK constraints of user_progress
ProgressChecks(row) ==
    /\ row.mastery_level >= 0 /\ row.mastery_level <= 100
    /\ row.total_attempts >= 0
    /\ row.correct_attempts >= 0
    /\ row.correct_attempts <= row.total_attempts

\* UPDATE user_progress SET ... WHERE user_id = $4 AND trick_id = $5, or
\* INSERT INTO user_progress; a violated constraint raises, and the exception
\* leaves process_user_response before update_session_progress
ProgressWrite(t) ==
    /\ task[t].pc = "progress_write"
    /\ LET a   == task[t].args
           key == <<a.user_id, a.trick_id>>
           row == IF a.current_progress.found
                  THEN UpdatedProgress(a.current_progress, a.score, a.is_correct)
                  ELSE CreatedProgress(a.score, a.is_correct)
           unique == a.current_progress.found \/ key \notin DOMAIN user_progress
           ok  == ProgressChecks(row) /\ unique
       IN  /\ user_progress' =
                IF ~ok THEN user_progress
                ELSE IF a.current_progress.found
                     THEN [user_progress EXCEPT ![key] = row]
                     ELSE user_progress @@ (key :> row)
           /\ IF ~ok
              THEN SetTask(t, "idle", task[t].session, NoArgs,
                           [op |-> a.op,
                            raised |-> IF unique THEN "CheckViolationError"
                                       ELSE "UniqueViolationError"])
              ELSE IF a.op = "process_user_response"
                   THEN SetTask(t, "advance", task[t].session, a, NoRet)
                   ELSE SetTask(t, "idle", task[t].session, NoArgs,
                                [op |-> "update_progress", raised |-> "none"])
    /\ UNCHANGED <<learning_sessions, user_responses>>
    /\ UNCHANGED reminders
    /\ UNCHANGED catalog

\* a direct call, as test_learning_system.py makes it
UpdateProgress(t, user_id, trick_id, score, is_correct) ==
    /\ task[t].pc = "idle"
    /\ SetTask(t, "progress_read", task[t].session,
               [op |-> "update_progress", user_id |-> user_id, trick_id |-> trick_id,
                score |-> score, is_correct |-> is_correct,
                current_progress |-> NoProgress],
               NoRet)
    /\ UNCHANGED <<learning_sessions, user_responses, user_progress>>
    /\ UNCHANGED reminders
    /\ UNCHANGED catalog

(***************************************************************************)
(* LearningSessionManager.process_user_response.  The Scoring Oracle's     *)
(* answer (score, is_correct) is an input.  before is history: the         *)
(* response count and the progress row at the call.                        *)
(***************************************************************************)
\* trick = get_trick_by_id(trick_id); analysis = analyze_response(..);
\* INSERT INTO user_responses (.., similarity_score, is_correct, ..)
process_user_response(t, trick_id, score, is_correct, oracle) ==
    /\ task[t].pc = "idle"
    /\ task[t].session.id # 0
    /\ IF ~TrickExists(trick_id)
       THEN /\ SetTask(t, "idle", task[t].session, NoArgs,
                       [op |-> "process_user_response", raised |-> "ValueError"])
            /\ UNCHANGED user_responses
       ELSE /\ user_responses' = Append(user_responses,
                    [session_id |-> task[t].session.id,
                     user_id |-> task[t].session.user_id,
                     trick_id |-> trick_id,
                     statement_id |-> task[t].session.statement_id,
                     similarity_score |-> SimilarityScore(score),
                     is_correct |-> is_correct])
            /\ SetTask(t, "progress_read", task[t].session,
                       [op |-> "process_user_response",
                        user_id |-> task[t].session.user_id,
                        trick_id |-> trick_id, score |-> score, is_correct |-> is_correct,
                        oracle |-> oracle,
                        current_progress |-> NoProgress,
                        before |-> [responses |-> Len(user_responses),
                                    progress |-> ProgressRow(task[t].session.user_id, trick_id),
                                    current_index |-> task[t].session.current_trick_index]],
                       NoRet)
    /\ UNCHANGED <<learning_sessions, user_progress>>
    /\ UNCHANGED reminders
    /\ UNCHANGED training_statements

\* the Scoring Oracle answers with an analysis that parses
ProcessUserResponse(t, trick_id, score, is_correct) ==
    /\ process_user_response(t, trick_id, score, is_correct, "answered")
    /\ tricks_cache' = TrickCached(tricks_cache, trick_id)
    /\ UNCHANGED all_tricks_cache

\* what the Scoring Oracle does when it gives no analysis:
\* ai_provider.get_response raises, or its text is not JSON
OracleFailures == {"raised", "unparsable"}

\* only except json.JSONDecodeError, without the except Exception around it
CaughtWhenUnparsable(failure) == failure = "unparsable"

\* analyze_response catches the failure: except json.JSONDecodeError the
\* text that does not parse, except Exception everything else
Caught(failure) == failure \in {"raised", "unparsable"}

\* the Scoring Oracle fails: analyze_response returns _fallback_analysis,
\* whose classify_response loads the tricks
ProcessUserResponseFallback(t, trick_id, response, failure) ==
    LET cache    == TrickCached(tricks_cache, trick_id)
        analysis == fallback_analysis(
                        classify_response(cache, all_tricks_cache, response, trick_id))
    IN  IF ~TrickExists(trick_id)
        THEN /\ process_user_response(t, trick_id, 0, FALSE, failure)
             /\ UNCHANGED <<tricks_cache, all_tricks_cache>>
        ELSE IF ~Caught(failure)
        THEN /\ task[t].pc = "idle"
             /\ task[t].session.id # 0
             /\ SetTask(t, "idle", task[t].session, NoArgs,
                        [op |-> "process_user_response", raised |-> "OracleError"])
             /\ tricks_cache' = cache
             /\ UNCHANGED <<learning_sessions, user_responses, user_progress>>
             /\ UNCHANGED reminders
             /\ UNCHANGED <<training_statements, all_tricks_cache>>
        ELSE /\ process_user_response(t, trick_id, analysis.score, analysis.is_correct,
                                      failure)
             /\ tricks_cache' = TricksCacheLoaded(cache, all_tricks_cache)
             /\ all_tricks_cache' = AllTricksCacheLoaded(all_tricks_cache)

\* the response processed with the cursor left where it was
AdvanceSkipped(t) ==
    /\ task[t].pc = "advance"
    /\ SetTask(t, "idle", task[t].session, NoArgs,
               [op |-> "process_user_response", raised |-> "none"])
    /\ UNCHANGED <<learning_sessions, user_responses, user_progress>>
    /\ UNCHANGED reminders
    /\ UNCHANGED catalog

\* await self.update_session_progress(session, trick_id); return feedback
Advance(t) ==
    /\ task[t].pc = "advance"
    /\ update_session_progress(t, task[t].args.trick_id, "idle",
            [op |-> "process_user_response", raised |-> "none"])
    /\ UNCHANGED <<user_responses, user_progress>>
    /\ UNCHANGED reminders
    /\ UNCHANGED catalog

(***************************************************************************)
(* LearningSessionManager.complete_session: the UPDATE, then the           *)
(* statistics of the summary                                               *)
(***************************************************************************)
\* UPDATE learning_sessions SET status = 'completed',
\*        completed_at = CURRENT_TIMESTAMP WHERE id = $2
CompleteSession(t) ==
    /\ task[t].pc = "idle"
    /\ task[t].session.id # 0
    /\ learning_sessions' =
            [learning_sessions EXCEPT ![task[t].session.id] =
                [@ EXCEPT !.status = "completed", !.completed_at = "CURRENT_TIMESTAMP"]]
    /\ SetTask(t, "complete_stats", task[t].session, [op |-> "complete_session"], NoRet)
    /\ UNCHANGED <<user_responses, user_progress>>
    /\ UNCHANGED reminders
    /\ UNCHANGED catalog

SessionResponses(session_id) ==
    {i \in 1..Len(user_responses) : user_responses[i].session_id = session_id}

\* the summary counting only the tricks answered correctly
SessionStatsCorrectOnly(session_id) ==
    LET rows == {i \in SessionResponses(session_id) : user_responses[i].is_correct}
    IN  [tricks_practiced |-> Cardinality({user_responses[i].trick_id : i \in rows}),
         total_attempts |-> Cardinality(rows),
         correct_attempts |-> Cardinality(rows),
         mastered_tricks |-> {user_responses[i].trick_id : i \in rows}]

\* the summary with the tricks of a similarity_score above 0.8
SessionStatsAbove(session_id) ==
    LET rows == SessionResponses(session_id)
    IN  [tricks_practiced |-> Cardinality({user_responses[i].trick_id : i \in rows}),
         total_attempts |-> Cardinality(rows),
         correct_attempts |-> Cardinality({i \in rows : user_responses[i].is_correct}),
         mastered_tricks |->
            {user_responses[i].trick_id : i \in
                {j \in rows : 10 * user_responses[j].similarity_score.num
                                > 8 * user_responses[j].similarity_score.den}}]

\* COUNT(DISTINCT trick_id), COUNT(..), COUNT(CASE WHEN is_correct ..), and the
\* tricks with a response of similarity_score >= 0.8
SessionStats(session_id) ==
    LET rows == SessionResponses(session_id)
    IN  [tricks_practiced |-> Cardinality({user_responses[i].trick_id : i \in rows}),
         total_attempts |-> Cardinality(rows),
         correct_attempts |-> Cardinality({i \in rows : user_responses[i].is_correct}),
         mastered_tricks |->
            {user_responses[i].trick_id : i \in
                {j \in rows : 10 * user_responses[j].similarity_score.num
                                >= 8 * user_responses[j].similarity_score.den}}]

\* stats = SELECT ... FROM user_responses WHERE session_id = $1
\* session.status = COMPLETED; session.completed_at = now; return summary
CompleteStats(t) ==
    /\ task[t].pc = "complete_stats"
    /\ SetTask(t, "idle",
               [task[t].session EXCEPT !.status = "completed", !.completed_at = "now"],
               NoArgs,
               [op |-> "complete_session", summary |-> SessionStats(task[t].session.id)])
    /\ UNCHANGED <<learning_sessions, user_responses, user_progress>>
    /\ UNCHANGED reminders
    /\ UNCHANGED catalog

(***************************************************************************)
(* LearningSessionManager.abandon_session                                  *)
(***************************************************************************)
\* UPDATE learning_sessions SET status = 'abandoned' WHERE id = $2
AbandonSession(t) ==
    /\ task[t].pc = "idle"
    /\ task[t].session.id # 0
    /\ learning_sessions' =
            [learning_sessions EXCEPT ![task[t].session.id].status = "abandoned"]
    /\ SetTask(t, "idle", [task[t].session EXCEPT !.status = "abandoned"], NoArgs,
               [op |-> "abandon_session"])
    /\ UNCHANGED <<user_responses, user_progress>>
    /\ UNCHANGED reminders
    /\ UNCHANGED catalog

(***************************************************************************)
(* LearningSessionManager.cleanup_old_sessions.  Its statement is          *)
(*   UPDATE learning_sessions SET status = $1                              *)
(*   WHERE status = $2 AND started_at < $3 RETURNING COUNT(..)              *)
(* PostgreSQL rejects an aggregate in RETURNING when it parses the         *)
(* statement, so fetchval raises and no row is updated.                    *)
(* The rows with started_at < $3 are those of `old`, whatever the time is.  *)
(***************************************************************************)
CleanupOldSessions(t, days_old) ==
    /\ task[t].pc = "idle"
    /\ \E old \in SUBSET (1..Len(learning_sessions)) :
            SetTask(t, "idle", task[t].session, NoArgs,
                    [op |-> "cleanup_old_sessions", days_old |-> days_old,
                     old |-> old, raised |-> "PostgresSyntaxError", count |-> 0])
    /\ UNCHANGED <<learning_sessions, user_responses, user_progress>>
    /\ UNCHANGED reminders
    /\ UNCHANGED catalog

(***************************************************************************)
(* LearningHandlers._skip_trick and proceed_to_next_trick: the callbacks   *)
(* skip_<k> and next_trick_<k>.  Both resume the session, call             *)
(* update_session_progress(session, k + 1) and then                        *)
(* session_manager.get_current_challenge, which LearningSessionManager     *)
(* does not define: the AttributeError is caught by the handler.           *)
(***************************************************************************)
\* session = await self.session_manager.resume_session(user.id)
HandlerResume(t, handler, user_id, trick_id) ==
    /\ task[t].pc = "idle"
    /\ LET session == get_active_session(user_id)
       IN  IF session.id = 0
           THEN SetTask(t, "idle", session, NoArgs,
                        [op |-> handler, raised |-> "none"])
           ELSE SetTask(t, "handler_update", session,
                        [op |-> handler, user_id |-> user_id, trick_id |-> trick_id], NoRet)
    /\ UNCHANGED <<learning_sessions, user_responses, user_progress>>
    /\ UNCHANGED reminders
    /\ UNCHANGED catalog

SkipTrick(t, user_id, trick_id_to_skip) ==
    HandlerResume(t, "_skip_trick", user_id, trick_id_to_skip)

ProceedToNextTrick(t, user_id, current_trick_id) ==
    HandlerResume(t, "proceed_to_next_trick", user_id, current_trick_id)

\* await self.session_manager.update_session_progress(session, trick_id + 1)
HandlerUpdate(t) ==
    /\ task[t].pc = "handler_update"
    /\ update_session_progress(t, task[t].args.trick_id + 1, "idle",
            [op |-> task[t].args.op, raised |-> "AttributeError"])
    /\ UNCHANGED <<user_responses, user_progress>>
    /\ UNCHANGED reminders
    /\ UNCHANGED catalog

(***************************************************************************)
(* LearningHandlers.learn_command and continue_command: the session is     *)
(* started or resumed, get_next_challenge is asked for the challenge and   *)
(* _present_challenge shows it; _present_challenge calls                   *)
(* update_session_progress(session, challenge.target_trick_id) before it   *)
(* replies.                                                                *)
(***************************************************************************)
\* challenge = await self.session_manager.get_next_challenge(session) and
\* what the handler does with it
PresentChallenge(t, handler) ==
    /\ task[t].session.id # 0
    /\ LET challenge == Challenge(task[t].session)
       IN  IF challenge.found
           THEN /\ update_session_progress(t, challenge.target_trick_id, "idle",
                        [op |-> handler, session_id |-> task[t].session.id,
                         target_trick_id |-> challenge.target_trick_id,
                         attempt_number |-> challenge.attempt_number])
                /\ tricks_cache' = TrickCached(tricks_cache, challenge.target_trick_id)
           ELSE IF handler = "continue_command"
           THEN /\ learning_sessions' =
                        [learning_sessions EXCEPT ![task[t].session.id] =
                            [@ EXCEPT !.status = "completed",
                                      !.completed_at = "CURRENT_TIMESTAMP"]]
                /\ SetTask(t, "complete_stats", task[t].session,
                           [op |-> "complete_session"], NoRet)
                /\ UNCHANGED tricks_cache
           ELSE /\ SetTask(t, "idle", task[t].session, NoArgs,
                           [op |-> handler, session_id |-> task[t].session.id,
                            target_trick_id |-> 0, attempt_number |-> 0])
                /\ UNCHANGED <<learning_sessions, tricks_cache>>
    /\ UNCHANGED <<user_responses, user_progress>>
    /\ UNCHANGED reminders
    /\ UNCHANGED <<training_statements, all_tricks_cache>>

\* learn_command after its start_session has returned the session
LearnPresent(t) ==
    /\ task[t].pc = "idle"
    /\ ret.op = "start_session"
    /\ ret.task = t
    /\ "id" \in DOMAIN ret
    /\ PresentChallenge(t, "learn_command")

\* session = await self.session_manager.resume_session(user.id)
ContinueCommand(t, user_id) ==
    /\ task[t].pc = "idle"
    /\ LET session == get_active_session(user_id)
       IN  IF session.id = 0
           THEN SetTask(t, "idle", session, NoArgs,
                        [op |-> "continue_command", session_id |-> 0,
                         target_trick_id |-> 0, attempt_number |-> 0])
           ELSE SetTask(t, "present_challenge", session,
                        [op |-> "continue_command", user_id |-> user_id], NoRet)
    /\ UNCHANGED <<learning_sessions, user_responses, user_progress>>
    /\ UNCHANGED reminders
    /\ UNCHANGED catalog

\* continue_command with the session it resumed
ContinuePresent(t) ==
    /\ task[t].pc = "present_challenge"
    /\ PresentChallenge(t, "continue_command")

(***************************************************************************)
(* Inputs.                                                                 *)
(***************************************************************************)
\* trick ids passed by callers: the first one, the last one
InputTricks == {1, NumTricks}

Starting == {t \in Tasks : task[t].pc \in {"start_pick", "start_insert"}}

\* the user of test_learning_system.py
test_user_id == CHOOSE u \in Users : TRUE

\* the update_progress calls in flight for a row
Updating(user_id, trick_id) ==
    {t \in Tasks : /\ task[t].pc \in {"progress_read", "progress_write"}
                   /\ task[t].args.user_id = user_id
                   /\ task[t].args.trick_id = trick_id}

(***************************************************************************)
(* The event loop: any task takes its next step, or an idle task is given  *)
(* a call.                                                                 *)
(***************************************************************************)
Continue(t) ==
    \/ StartPick(t)
    \/ StartInsert(t)
    \/ ProgressRead(t)
    \/ ProgressWrite(t)
    \/ Advance(t)
    \/ CompleteStats(t)
    \/ HandlerUpdate(t)

CallStartFor(t, u) ==
    /\ \/ ActiveSessionIds(u) # {}
       \/ Len(learning_sessions) + Cardinality(Starting) < MaxSessions
    /\ StartSession(t, u)

CallStart(t) == \E u \in Users : CallStartFor(t, u)

CallResponse(t) ==
    \E k \in InputTricks \cup {NumTricks + 1}, a \in ResponseAnalyses :
        /\ Len(user_responses) < MaxResponses
        /\ ProcessUserResponse(t, k, a.score, a.is_correct)

CallProgress(t) ==
    \E u \in Users, k \in {1}, a \in Analyses :
        /\ ProgressRow(u, k).total_attempts + Cardinality(Updating(u, k)) < MaxAttempts
        /\ UpdateProgress(t, u, k, a.score, a.is_correct)

Call(t) ==
    \/ CallStart(t)
    \/ \E u \in Users : ResumeSession(t, u)
    \/ GetNextChallenge(t)
    \/ \E k \in InputTricks : UpdateSessionProgress(t, k)
    \/ CallResponse(t)
    \/ CallProgress(t)
    \/ CompleteSession(t)
    \/ AbandonSession(t)
    \/ CleanupOldSessions(t, 7)
    \/ \E u \in Users, k \in InputTricks : SkipTrick(t, u, k)
    \/ \E u \in Users, k \in InputTricks : ProceedToNextTrick(t, u, k)

Next == \E t \in Tasks : Continue(t) \/ Call(t)

Spec == Init /\ [][Next]_vars

(***************************************************************************)
(* The session operations of any number of tasks in flight together.       *)
(***************************************************************************)
NextSessions ==
    \E t \in Tasks :
        \/ CallStart(t)
        \/ StartPick(t)
        \/ StartInsert(t)
        \/ \E u \in Users : ResumeSession(t, u)
        \/ CompleteSession(t)
        \/ CompleteStats(t)
        \/ AbandonSession(t)
        \/ CleanupOldSessions(t, 7)
        \/ \E u \in Users, k \in InputTricks : SkipTrick(t, u, k)
        \/ \E u \in Users, k \in InputTricks : ProceedToNextTrick(t, u, k)
        \/ HandlerUpdate(t)

SpecSessions == Init /\ [][NextSessions]_vars

(***************************************************************************)
(* One caller making the calls of the session manager one after another,   *)
(* as test_learning_system.py does.                                        *)
(***************************************************************************)
NextSeq ==
    \E t \in {1} :
        \/ CallStartFor(t, test_user_id)
        \/ StartPick(t)
        \/ StartInsert(t)
        \/ ResumeSession(t, test_user_id)
        \/ GetNextChallenge(t)
        \/ \E k \in InputTricks : UpdateSessionProgress(t, k)
        \/ CallResponse(t)
        \/ ProgressRead(t)
        \/ ProgressWrite(t)
        \/ Advance(t)
        \/ CompleteSession(t)
        \/ CompleteStats(t)

SpecSeq == Init /\ [][NextSeq]_vars

(***************************************************************************)
(* The tasks of one user answering together: each starts or resumes the    *)
(* session and calls process_user_response.                                *)
(***************************************************************************)
NextResponses ==
    \E t \in Tasks :
        \/ CallStartFor(t, test_user_id)
        \/ StartPick(t)
        \/ StartInsert(t)
        \/ ResumeSession(t, test_user_id)
        \/ CallResponse(t)
        \/ ProgressRead(t)
        \/ ProgressWrite(t)
        \/ Advance(t)

SpecResponses == Init /\ [][NextResponses]_vars

(***************************************************************************)
(* One user who sends /learn and /continue again and again.                *)
(***************************************************************************)
NextPresent ==
    \E t \in {1} :
        \/ CallStartFor(t, test_user_id)
        \/ StartPick(t)
        \/ StartInsert(t)
        \/ LearnPresent(t)
        \/ ContinueCommand(t, test_user_id)
        \/ ContinuePresent(t)
        \/ CompleteStats(t)

SpecPresent == Init /\ [][NextPresent]_vars

(***************************************************************************)
(* The mastery_level of one progress record over the update_progress calls *)
(* for its trick, every call with a score of 80 or more: the mastery the   *)
(* call reads is the one the call before it wrote, the first call reads    *)
(* an existing record of any mastery.  The calls go on for ever: weak      *)
(* fairness.  total_attempts, which every call adds 1 to, is kept by its   *)
(* parity, so that a call that leaves the mastery is still a step.         *)
(***************************************************************************)
GoodScores == {score \in Scores : score >= 2 * 80}

\* new_mastery = int(current_mastery * (1 - score_weight) + score * score_weight)
\* clamped, for the record's mastery and the score of the call
UpdateMastery(t, current_mastery, score) ==
    /\ task[t].pc = "idle"
    /\ ret.op = "update_mastery" => current_mastery = ret.mastery_level
    /\ SetTask(t, "idle", task[t].session, NoArgs,
               [op |-> "update_mastery", current_mastery |-> current_mastery,
                score |-> score,
                mastery_level |-> new_mastery[current_mastery][score],
                total_attempts_odd |->
                    IF ret.op = "update_mastery" THEN ~ret.total_attempts_odd
                    ELSE FALSE])
    /\ UNCHANGED <<learning_sessions, user_responses, user_progress>>
    /\ UNCHANGED reminders
    /\ UNCHANGED catalog

NextMastery ==
    \E t \in {1}, current_mastery \in 0..100, score \in GoodScores :
        UpdateMastery(t, current_mastery, score)

SpecMastery == Init /\ [][NextMastery]_vars /\ WF_vars(NextMastery)

(***************************************************************************)
(* One caller whose progress is updated with scores around 40 and 70 and   *)
(* who then starts a session.                                              *)
(***************************************************************************)
CallProgressDifficulty(t) ==
    \E k \in InputTricks, a \in DifficultyAnalyses :
        /\ ProgressRow(test_user_id, k).total_attempts < 1
        /\ UpdateProgress(t, test_user_id, k, a.score, a.is_correct)

NextDifficulty ==
    \E t \in {1} :
        \/ CallProgressDifficulty(t)
        \/ ProgressRead(t)
        \/ ProgressWrite(t)
        \/ CallStartFor(t, test_user_id)
        \/ StartPick(t)
        \/ StartInsert(t)

SpecDifficulty == Init /\ [][NextDifficulty]_vars

(***************************************************************************)
(* The same caller over statement tables that lack some difficulties, as   *)
(* before the training data is loaded or with data of fewer difficulties.  *)
(***************************************************************************)
Banks ==
    {<<>>, <<"easy">>, <<"easy", "medium">>, <<"medium", "hard">>, SeededStatements}

Difficulties == {"none", "easy", "medium", "hard"}

InitBank ==
    /\ learning_sessions = <<>>
    /\ user_responses = <<>>
    /\ user_progress = <<>>
    /\ task = [t \in Tasks |-> IdleTask]
    /\ ret = NoRet
    /\ reminder_tracking = <<>>
    /\ scheduler = NoScheduler
    /\ now = 0
    /\ telegram = [attempts |-> <<>>, delivered |-> <<>>]
    /\ errors = 0
    /\ training_statements \in Banks
    /\ tricks_cache = <<>>
    /\ all_tricks_cache = NoTricks

NextBank ==
    \E t \in {1} :
        \/ CallProgressDifficulty(t)
        \/ ProgressRead(t)
        \/ ProgressWrite(t)
        \/ CallStartFor(t, test_user_id)
        \/ StartPick(t)
        \/ StartInsert(t)
        \/ \E difficulty \in Difficulties : GetRandomStatement(t, difficulty)

SpecBank == InitBank /\ [][NextBank]_vars

(***************************************************************************)
(* One caller who answers and then completes the session, with answers     *)
(* scored around 80.                                                       *)
(***************************************************************************)
CallResponseSummary(t) ==
    \E k \in InputTricks, a \in SummaryAnalyses :
        /\ Len(user_responses) < MaxResponses
        /\ ProcessUserResponse(t, k, a.score, a.is_correct)

NextSummary ==
    \E t \in {1} :
        \/ CallStartFor(t, test_user_id)
        \/ StartPick(t)
        \/ StartInsert(t)
        \/ CallResponseSummary(t)
        \/ ProgressRead(t)
        \/ ProgressWrite(t)
        \/ Advance(t)
        \/ CompleteSession(t)
        \/ CompleteStats(t)

SpecSummary == Init /\ [][NextSummary]_vars

(***************************************************************************)
(* One caller whose responses meet a Scoring Oracle that answers or fails. *)
(***************************************************************************)
\* responses: without a keyword, with one of the four of trick 1, with one
\* of trick 1 and the two of trick 2, with the four of trick 1
Responses == {{}, {11}, {11, 21, 22}, {11, 12, 13, 14}}

CallResponseFallback(t) ==
    \E k \in InputTricks \cup {NumTricks + 1}, response \in Responses,
       failure \in OracleFailures :
        /\ Len(user_responses) < MaxResponses
        /\ ProcessUserResponseFallback(t, k, response, failure)

NextOracle ==
    \E t \in {1} :
        \/ CallStartFor(t, test_user_id)
        \/ StartPick(t)
        \/ StartInsert(t)
        \/ CallResponse(t)
        \/ CallResponseFallback(t)
        \/ ProgressRead(t)
        \/ ProgressWrite(t)
        \/ Advance(t)

SpecOracle == Init /\ [][NextOracle]_vars

(***************************************************************************)
(* update_progress calls of any number of tasks in flight together, for    *)
(* trick 1 as in test_learning_system.py.                                  *)
(***************************************************************************)
NextProgress ==
    \E t \in Tasks :
        \/ CallProgress(t)
        \/ ProgressRead(t)
        \/ ProgressWrite(t)

SpecProgress == Init /\ [][NextProgress]_vars

(***************************************************************************)
(* The practice loop of test_learning_system.py and of the handlers: one   *)
(* caller starts a session, answers every challenge get_next_challenge     *)
(* returns, and completes the session when it returns none.  ret, the      *)
(* value returned last, is where the caller is in the loop.  The caller's  *)
(* coroutine is run to its end by the event loop: weak fairness.           *)
(***************************************************************************)
NextLoop ==
    \E t \in {1} :
        \/ /\ ret.op = "none"
           /\ task[t].session.id = 0
           /\ CallStartFor(t, test_user_id)
        \/ StartPick(t)
        \/ StartInsert(t)
        \/ /\ ret.op \in {"start_session", "process_user_response"}
           /\ GetNextChallenge(t)
        \/ /\ ret.op = "get_next_challenge"
           /\ ret.challenge.found
           /\ \E a \in ResponseAnalyses :
                ProcessUserResponse(t, ret.challenge.target_trick_id, a.score, a.is_correct)
        \/ ProgressRead(t)
        \/ ProgressWrite(t)
        \/ Advance(t)
        \/ /\ ret.op = "get_next_challenge"
           /\ ~ret.challenge.found
           /\ CompleteSession(t)
        \/ CompleteStats(t)

SpecLoop == Init /\ [][NextLoop]_vars /\ WF_vars(NextLoop)

(***************************************************************************)
(* ProgressTracker._calculate_learning_streak.  A date is a day number;    *)
(* rows is the answer of SELECT DISTINCT DATE(last_practiced) .. ORDER BY  *)
(* practice_date DESC, the distinct practice dates of the user, the latest *)
(* first.                                                                  *)
(***************************************************************************)
\* datetime.now().date()
current_date == MaxDaysBack

PracticeDates == (current_date - MaxDaysBack)..current_date

\* ORDER BY practice_date DESC
RECURSIVE OrderDesc(_)
OrderDesc(dates) ==
    IF dates = {} THEN <<>>
    ELSE <<SetMax(dates)>> \o OrderDesc(dates \ {SetMax(dates)})

\* timedelta(days=1): a practice date one day before the expected one counts
AllowedGap == 1

\* for row in rows: .. streak += 1 .. else: break
RECURSIVE StreakLoop(_, _)
StreakLoop(rows, streak) ==
    IF rows = <<>> THEN streak
    ELSE LET practice_date == Head(rows)
             expected_date == current_date - streak
         IN  IF practice_date = expected_date
             THEN StreakLoop(Tail(rows), streak + 1)
             ELSE IF practice_date = expected_date - AllowedGap
                  THEN StreakLoop(Tail(rows), streak + 1)
                  ELSE streak

\* if not rows: return 0; streak = 0; the loop; return streak
CalculateLearningStreak(t, practice_dates) ==
    /\ task[t].pc = "idle"
    /\ SetTask(t, "idle", task[t].session, NoArgs,
               [op |-> "_calculate_learning_streak",
                practice_dates |-> practice_dates,
                streak |-> IF practice_dates = {} THEN 0
                           ELSE StreakLoop(OrderDesc(practice_dates), 0)])
    /\ UNCHANGED <<learning_sessions, user_responses, user_progress>>
    /\ UNCHANGED reminders
    /\ UNCHANGED catalog

NextStreak ==
    \E t \in {1}, practice_dates \in SUBSET PracticeDates :
        CalculateLearningStreak(t, practice_dates)

SpecStreak == Init /\ [][NextStreak]_vars

(***************************************************************************)
(* ProgressTracker.get_learning_recommendations                            *)
(*                                                                         *)
(* progress_map is the answer of get_user_progress keyed by trick_id; a    *)
(* row carries its mastery_level and its last_practiced, an hour count,    *)
(* and the call runs at hour `at`.                                         *)
(***************************************************************************)
ReviewDays == 7

\* (datetime.now(tz=UTC) - progress.last_practiced).days
days_since_practice(progress, at) == (at - progress.last_practiced) \div HoursPerDay

\* the body of the loop for one trick_id; type "none": nothing appended
Recommendation(progress_map, trick_id, at) ==
    IF trick_id \notin DOMAIN progress_map
    THEN [type |-> "new_trick", trick_id |-> trick_id, priority |-> 2]
    ELSE IF progress_map[trick_id].mastery_level < 50
    THEN [type |-> "practice", trick_id |-> trick_id, priority |-> 1]
    ELSE IF /\ progress_map[trick_id].mastery_level < 80
            /\ days_since_practice(progress_map[trick_id], at) > ReviewDays
    THEN [type |-> "review", trick_id |-> trick_id, priority |-> 3]
    ELSE [type |-> "none", trick_id |-> trick_id, priority |-> 0]

\* recommendations.sort(key=lambda x: (x.priority, x.trick_id))
SortsBefore(x, y) ==
    \/ x.priority < y.priority
    \/ x.priority = y.priority /\ x.trick_id < y.trick_id

\* the recommendations of the loop, sorted, and the first five of them
get_learning_recommendations(progress_map, at) ==
    LET recommendations ==
            {r \in {Recommendation(progress_map, trick_id, at) : trick_id \in TrickIds} :
                r.type # "none"}
        sorted ==
            [i \in 1..Cardinality(recommendations) |->
                CHOOSE r \in recommendations :
                    Cardinality({x \in recommendations : SortsBefore(x, r)}) = i - 1]
    IN  IF Len(sorted) <= 5 THEN sorted ELSE SubSeq(sorted, 1, 5)

GetLearningRecommendations(t, progress_map, at) ==
    /\ task[t].pc = "idle"
    /\ SetTask(t, "idle", task[t].session, NoArgs,
               [op |-> "get_learning_recommendations",
                progress_map |-> progress_map, at |-> at,
                recommendations |-> get_learning_recommendations(progress_map, at)])
    /\ UNCHANGED <<learning_sessions, user_responses, user_progress>>
    /\ UNCHANGED reminders
    /\ UNCHANGED catalog

\* the hour of the call
RecommendAt == (ReviewDays + 1) * HoursPerDay

\* progress rows around the limits: mastery 49, 50, 79 and 80, practiced 7
\* days, 7 days and an hour, and 8 days before the call
ProgressKinds ==
    {[mastery_level |-> 49, last_practiced |-> 0],
     [mastery_level |-> 50, last_practiced |-> HoursPerDay],
     [mastery_level |-> 50, last_practiced |-> HoursPerDay - 1],
     [mastery_level |-> 79, last_practiced |-> 0],
     [mastery_level |-> 80, last_practiced |-> 0]}

\* the tricks whose rows vary one by one; the others share one kind of row
VariedTricks == {1, NumTricks}

\* progress maps: the varied tricks each with a row or without, the other
\* tricks all without rows or all with the same row
ProgressMaps ==
    {varied @@ others :
        varied \in UNION {[tricks -> ProgressKinds] : tricks \in SUBSET VariedTricks},
        others \in {<<>>} \cup {[trick_id \in TrickIds \ VariedTricks |-> kind] :
                                    kind \in ProgressKinds}}

NextRecommend ==
    \E t \in {1}, progress_map \in ProgressMaps :
        GetLearningRecommendations(t, progress_map, RecommendAt)

SpecRecommend == Init /\ [][NextRecommend]_vars

(***************************************************************************)
(* core/reminder_scheduler.py.  The loop task is cut at its awaits: the    *)
(* sleep until the next check, the SELECT of the batch, every              *)
(* bot.send_message and the UPDATE after it, the back-off sleep.  Time     *)
(* passes while the task sleeps and while it waits for Telegram; the       *)
(* statements between two awaits take none.                                *)
(***************************************************************************)
\* the users the reminder actions are run for: a batch of two has a user
\* that is reached after another
ReminderUsers == {test_user_id, test_user_id + 1}

\* the user who practices
PracticeUsers == {test_user_id + 1}

\* the end of the model's time
Horizon == MaxDays * HoursPerDay

\* a row as INSERT INTO reminder_tracking leaves it: reminder_count 0 and
\* reminders_enabled true by server_default, the dates NULL
NewTracking ==
    [reminders_enabled |-> TRUE, last_practice_date |-> NullDate,
     last_reminder_date |-> NullDate, reminder_count |-> 0]

\* the practice written as a whole new row
update_practice_timestamp_row(user_id) ==
    (user_id :> [NewTracking EXCEPT !.last_practice_date = DateAt(now)])
        @@ reminder_tracking

\* ReminderScheduler.update_practice_timestamp
update_practice_timestamp(user_id) ==
    IF user_id \in DOMAIN reminder_tracking
    THEN [reminder_tracking EXCEPT ![user_id].last_practice_date = DateAt(now)]
    ELSE reminder_tracking @@
            (user_id :> [NewTracking EXCEPT !.last_practice_date = DateAt(now)])

UpdatePracticeTimestamp(user_id) ==
    /\ reminder_tracking' = update_practice_timestamp(user_id)
    /\ UNCHANGED <<learning_sessions, user_responses, user_progress, task, ret>>
    /\ UNCHANGED catalog
    /\ UNCHANGED <<scheduler, now, telegram, errors>>

\* ReminderScheduler.toggle_reminders
ToggleReminders(user_id, enabled) ==
    /\ reminder_tracking' =
            IF user_id \in DOMAIN reminder_tracking
            THEN [reminder_tracking EXCEPT ![user_id].reminders_enabled = enabled]
            ELSE reminder_tracking @@
                    (user_id :> [NewTracking EXCEPT !.reminders_enabled = enabled])
    /\ UNCHANGED <<learning_sessions, user_responses, user_progress, task, ret>>
    /\ UNCHANGED catalog
    /\ UNCHANGED <<scheduler, now, telegram, errors>>

\* seven_days_ago = datetime.now(timezone.utc) - timedelta(days=7)
seven_days_ago == now - ReminderDays * HoursPerDay

\* date IS NULL OR date <= $1
NullOrBefore(date, at) == date.is_null \/ date.at <= at

\* the WHERE clause as its comment words it: not practiced OR not reminded
WhereEither(row) ==
    /\ row.reminders_enabled
    /\ \/ NullOrBefore(row.last_practice_date, seven_days_ago)
       \/ NullOrBefore(row.last_reminder_date, seven_days_ago)

\* the WHERE clause of _get_users_to_remind
Where(row) ==
    /\ row.reminders_enabled
    /\ NullOrBefore(row.last_practice_date, seven_days_ago)
    /\ NullOrBefore(row.last_reminder_date, seven_days_ago)

\* the rows of the SELECT; every user_id of reminder_tracking is a row of
\* users (ForeignKeyConstraint), so the INNER JOIN drops none
UsersToRemind == {user_id \in DOMAIN reminder_tracking : Where(reminder_tracking[user_id])}

\* the lists a query without ORDER BY can return a set of rows as
Orders(S) == {l \in [1..Cardinality(S) -> S] : \A u \in S : \E k \in DOMAIN l : l[k] = u}

\* today's 12:00 kept when it is the current time
NextRunAtOrAfter(at) ==
    LET next_run == (at \div HoursPerDay) * HoursPerDay + TriggerHour
    IN  IF at > next_run THEN next_run + HoursPerDay ELSE next_run

\* now.replace(hour=12, ..); if now >= next_run: next_run += timedelta(days=1)
NextRun(at) ==
    LET next_run == (at \div HoursPerDay) * HoursPerDay + TriggerHour
    IN  IF at >= next_run THEN next_run + HoursPerDay ELSE next_run

\* an exception that leaves the loop body ends the task
OnExceptionEnd(sched, at) == [sched EXCEPT !.pc = "finished"]

\* except Exception: logger.error(..); await asyncio.sleep(3600)
OnException(sched, at) ==
    [sched EXCEPT !.pc = "backoff", !.next_run = at + BackoffHours]

\* the loop task from the top of while self.is_running to its next await,
\* at the time at: the sleep until next_run, or the back-off sleep when a
\* statement of the try block raises
EnterLoop(sched, at, raises) ==
    LET idle == [sched EXCEPT !.users_to_remind = <<>>, !.index = 0]
    IN  IF ~idle.is_running THEN [idle EXCEPT !.pc = "finished"]
        ELSE IF raises THEN OnException(idle, at)
        ELSE [idle EXCEPT !.pc = "sleep", !.next_run = NextRun(at)]

\* what the try block logs when it raises
Logged(raises) == IF raises THEN errors + 1 ELSE errors

\* the position after the next: a user of the list passed over
NextIndexSkip(index) == index + 2

\* for user_data in users_to_remind
NextIndex(index) == index + 1

\* the batch after the user at index: the next user, or the end of
\* _check_and_send_reminders and the loop again
NextUser(sched, at, raises) ==
    IF NextIndex(sched.index) <= Len(sched.users_to_remind)
    THEN [sched EXCEPT !.pc = "send", !.index = NextIndex(sched.index)]
    ELSE EnterLoop(sched, at, raises)

\* the batch is over after this step of it
BatchEnds(sched) == NextIndex(sched.index) > Len(sched.users_to_remind)

\* the loop task that self._task refers to has been created and has not ended
TaskAlive(sched) == sched.pc \notin {"none", "finished", "cancelled"}

\* a start that never finds the scheduler running
AlreadyRunningNever(sched) == FALSE

\* if self.is_running: logger.warning(..); return
AlreadyRunning(sched) == sched.is_running

\* ReminderScheduler.start: nothing when the scheduler is running; else the
\* task is created, it has not run yet, and self._task refers to it.  A task
\* that self._task referred to and that is still alive goes on as one of
\* the other_tasks.
Start ==
    /\ scheduler' =
            IF AlreadyRunning(scheduler) THEN scheduler
            ELSE [scheduler EXCEPT
                     !.is_running = TRUE, !.pc = "created",
                     !.users_to_remind = <<>>, !.index = 0,
                     !.other_tasks = IF TaskAlive(scheduler) THEN @ + 1 ELSE @]
    /\ UNCHANGED <<learning_sessions, user_responses, user_progress, task, ret>>
    /\ UNCHANGED catalog
    /\ UNCHANGED <<reminder_tracking, now, telegram, errors>>

\* the task runs for the first time
Run(raises) ==
    /\ scheduler.pc = "created"
    /\ scheduler' = EnterLoop(scheduler, now, raises)
    /\ errors' = Logged(raises)
    /\ UNCHANGED <<learning_sessions, user_responses, user_progress, task, ret>>
    /\ UNCHANGED catalog
    /\ UNCHANGED <<reminder_tracking, now, telegram>>

\* await asyncio.sleep(seconds_until_run) is over: if self.is_running, the
\* connection is acquired and the SELECT is sent
Wake ==
    /\ scheduler.pc = "sleep"
    /\ scheduler.next_run <= Horizon
    /\ now' = scheduler.next_run
    /\ scheduler' = IF scheduler.is_running THEN [scheduler EXCEPT !.pc = "query"]
                    ELSE EnterLoop(scheduler, now', FALSE)
    /\ UNCHANGED <<learning_sessions, user_responses, user_progress, task, ret>>
    /\ UNCHANGED catalog
    /\ UNCHANGED <<reminder_tracking, telegram, errors>>

\* users_to_remind = await self._get_users_to_remind(conn), and the loop up
\* to its first send
GetUsersToRemind(raises) ==
    /\ scheduler.pc = "query"
    /\ \E users_to_remind \in Orders(UsersToRemind) :
            scheduler' =
                IF users_to_remind = <<>> THEN EnterLoop(scheduler, now, raises)
                ELSE [scheduler EXCEPT !.pc = "send", !.index = 1,
                                       !.users_to_remind = users_to_remind]
    /\ errors' = IF UsersToRemind = {} THEN Logged(raises) ELSE errors
    /\ telegram' = [telegram EXCEPT !.attempts = <<>>]
    /\ UNCHANGED <<learning_sessions, user_responses, user_progress, task, ret>>
    /\ UNCHANGED catalog
    /\ UNCHANGED <<reminder_tracking, now>>

\* what Telegram answers a send with: done; Forbidden: bot was blocked by
\* the user (or user is deactivated, chat not found); any other error
Outcomes == {"sent", "blocked", "failed"}

\* the hours a send can take
Delays == {0, 1}

\* await self.bot.send_message(chat_id=user_id, ..) in _send_reminder, and
\* its except clauses; the answer comes after delay hours
SendReminder(outcome, delay, raises) ==
    /\ scheduler.pc = "send"
    /\ now' = now + delay
    /\ LET user_id == scheduler.users_to_remind[scheduler.index]
           sending == [scheduler EXCEPT
                          !.message_index = (@ + 1) % NumMessages]
       IN  /\ telegram' =
                [attempts |-> Append(telegram.attempts,
                                     [user_id |-> user_id, outcome |-> outcome]),
                 delivered |-> IF outcome = "sent"
                               THEN (user_id :> now') @@ telegram.delivered
                               ELSE telegram.delivered]
           /\ scheduler' =
                IF outcome = "sent" THEN [sending EXCEPT !.pc = "update"]
                ELSE IF outcome = "blocked" THEN [sending EXCEPT !.pc = "disable"]
                ELSE NextUser(sending, now', raises)
           /\ errors' = IF outcome = "failed" /\ BatchEnds(scheduler)
                        THEN Logged(raises) ELSE errors
    /\ UNCHANGED <<learning_sessions, user_responses, user_progress, task, ret>>
    /\ UNCHANGED catalog
    /\ UNCHANGED reminder_tracking

\* the reminder counted, its date not written
RemindedRowUndated(row, at) ==
    [row EXCEPT !.reminder_count = @ + 1]

\* UPDATE reminder_tracking SET last_reminder_date = $1,
\*        reminder_count = reminder_count + 1
RemindedRow(row, at) ==
    [row EXCEPT !.last_reminder_date = DateAt(at), !.reminder_count = @ + 1]

\* await conn.execute(update_query, ..) in _send_reminder
UpdateTracking(raises) ==
    /\ scheduler.pc = "update"
    /\ LET user_id == scheduler.users_to_remind[scheduler.index]
       IN  reminder_tracking' =
                [reminder_tracking EXCEPT ![user_id] = RemindedRow(@, now)]
    /\ scheduler' = NextUser(scheduler, now, raises)
    /\ errors' = IF BatchEnds(scheduler) THEN Logged(raises) ELSE errors
    /\ UNCHANGED <<learning_sessions, user_responses, user_progress, task, ret>>
    /\ UNCHANGED catalog
    /\ UNCHANGED <<now, telegram>>

\* the row of a user who blocked the bot left as it is
DisabledRowKept(row) == row

\* UPDATE reminder_tracking SET reminders_enabled = false
DisabledRow(row) == [row EXCEPT !.reminders_enabled = FALSE]

\* await self._disable_reminders(user_id, conn)
DisableReminders(raises) ==
    /\ scheduler.pc = "disable"
    /\ LET user_id == scheduler.users_to_remind[scheduler.index]
       IN  reminder_tracking' =
                [reminder_tracking EXCEPT ![user_id] = DisabledRow(@)]
    /\ scheduler' = NextUser(scheduler, now, raises)
    /\ errors' = IF BatchEnds(scheduler) THEN Logged(raises) ELSE errors
    /\ UNCHANGED <<learning_sessions, user_responses, user_progress, task, ret>>
    /\ UNCHANGED catalog
    /\ UNCHANGED <<now, telegram>>

\* await asyncio.sleep(3600) is over
Backoff(raises) ==
    /\ scheduler.pc = "backoff"
    /\ scheduler.next_run <= Horizon
    /\ now' = scheduler.next_run
    /\ scheduler' = EnterLoop(scheduler, now', raises)
    /\ errors' = Logged(raises)
    /\ UNCHANGED <<learning_sessions, user_responses, user_progress, task, ret>>
    /\ UNCHANGED catalog
    /\ UNCHANGED <<reminder_tracking, telegram>>

\* cancel() without effect: the task goes on
CancelledIgnored(sched) == sched

\* self._task.cancel(): CancelledError is raised at the await the task is
\* suspended at.  In the back-off sleep it is raised inside the except
\* clause and leaves the task; anywhere else it reaches except
\* asyncio.CancelledError: break (no except Exception catches it).  A task
\* that has not run yet never runs.
Cancelled(sched) ==
    LET ended == [sched EXCEPT !.users_to_remind = <<>>, !.index = 0]
    IN  IF sched.pc \in {"none", "finished", "cancelled"} THEN sched
        ELSE IF sched.pc \in {"created", "backoff"} THEN [ended EXCEPT !.pc = "cancelled"]
        ELSE [ended EXCEPT !.pc = "finished"]

\* ReminderScheduler.stop: await self._task raises CancelledError when the
\* task ended cancelled, and stop passes it over
Stop ==
    /\ scheduler' = Cancelled([scheduler EXCEPT !.is_running = FALSE])
    /\ ret' = [op |-> "stop", task |-> 0, raised |-> "none",
                cancelled_at |-> scheduler.pc]
    /\ UNCHANGED <<learning_sessions, user_responses, user_progress, task>>
    /\ UNCHANGED catalog
    /\ UNCHANGED <<reminder_tracking, now, telegram, errors>>

\* the hours of the day the bot is started at, around the hour of the check
StartHours == (TriggerHour - MaxStartDelay)..(TriggerHour + MaxStartDelay)

\* time passes before the bot is started
Pass ==
    /\ scheduler.pc = "none"
    /\ now = 0
    /\ \E hour \in StartHours : now' = hour
    /\ UNCHANGED <<learning_sessions, user_responses, user_progress, task, ret>>
    /\ UNCHANGED catalog
    /\ UNCHANGED <<reminder_tracking, scheduler, telegram, errors>>

\* the bot starts the scheduler once (bot.py start)
CallSchedulerStart == scheduler.pc = "none" /\ Start

\* the bot stops the scheduler it started, once (bot.py stop)
CallSchedulerStop == scheduler.is_running /\ Stop

(***************************************************************************)
(* The daily batches of the running scheduler, with users who toggle their *)
(* reminders and practice meanwhile.                                       *)
(***************************************************************************)
NextReminders ==
    \/ Pass
    \/ CallSchedulerStart
    \/ Run(FALSE)
    \/ Wake
    \/ GetUsersToRemind(FALSE)
    \/ \E outcome \in Outcomes, delay \in Delays : SendReminder(outcome, delay, FALSE)
    \/ UpdateTracking(FALSE)
    \/ DisableReminders(FALSE)
    \/ \E user_id \in ReminderUsers, enabled \in BOOLEAN : ToggleReminders(user_id, enabled)
    \/ \E user_id \in PracticeUsers : UpdatePracticeTimestamp(user_id)

SpecReminders == Init /\ [][NextReminders]_vars

(***************************************************************************)
(* The life of the loop task: started, stopped, and an iteration that      *)
(* raises.  The event loop runs the task when its sleep is over: weak      *)
(* fairness of its steps.                                                  *)
(***************************************************************************)
Raises == {raises \in BOOLEAN : raises => errors < MaxErrors}

SchedulerStep ==
    \/ \E raises \in Raises : Run(raises)
    \/ Wake
    \/ \E raises \in Raises : GetUsersToRemind(raises)
    \/ \E outcome \in Outcomes, raises \in Raises : SendReminder(outcome, 0, raises)
    \/ \E raises \in Raises : UpdateTracking(raises)
    \/ \E raises \in Raises : DisableReminders(raises)
    \/ \E raises \in Raises : Backoff(raises)

NextScheduler ==
    \/ Pass
    \/ CallSchedulerStart
    \/ CallSchedulerStop
    \/ SchedulerStep
    \/ \E user_id \in ReminderUsers : ToggleReminders(user_id, TRUE)

SpecScheduler == Init /\ [][NextScheduler]_vars /\ WF_vars(SchedulerStep)

(***************************************************************************)
(* A scheduler that is started and stopped again and again, at any point   *)
(* of its loop; start and stop are awaited one after another.              *)
(***************************************************************************)
NextRestart ==
    \/ Pass
    \/ Start
    \/ Stop
    \/ Run(FALSE)
    \/ Wake
    \/ GetUsersToRemind(FALSE)
    \/ \E outcome \in Outcomes : SendReminder(outcome, 0, FALSE)
    \/ UpdateTracking(FALSE)
    \/ DisableReminders(FALSE)
    \/ ToggleReminders(test_user_id, TRUE)

SpecRestart == Init /\ [][NextRestart]_vars

(***************************************************************************)
(* The calls of the TrickEngine: lookups served from the cache or from the *)
(* table, load_tricks, clear_cache, and the keyword classifier of the      *)
(* fallback.                                                               *)
(***************************************************************************)
\* TrickEngine.get_trick_by_id
GetTrickById(t, trick_id) ==
    /\ task[t].pc = "idle"
    /\ SetTask(t, "idle", task[t].session, NoArgs,
               LET found == TrickLookup(tricks_cache, trick_id)
               IN  [op |-> "get_trick_by_id", trick_id |-> trick_id,
                    raised |-> IF found.found THEN "none" ELSE "ValueError",
                    cached |-> trick_id \in DOMAIN tricks_cache,
                    trick |-> found.trick])
    /\ tricks_cache' = TrickCached(tricks_cache, trick_id)
    /\ UNCHANGED <<learning_sessions, user_responses, user_progress>>
    /\ UNCHANGED reminders
    /\ UNCHANGED <<training_statements, all_tricks_cache>>

\* TrickEngine.load_tricks
LoadTricks(t) ==
    /\ task[t].pc = "idle"
    /\ SetTask(t, "idle", task[t].session, NoArgs,
               [op |-> "load_tricks", tricks |-> LoadedTricks(all_tricks_cache)])
    /\ tricks_cache' = TricksCacheLoaded(tricks_cache, all_tricks_cache)
    /\ all_tricks_cache' = AllTricksCacheLoaded(all_tricks_cache)
    /\ UNCHANGED <<learning_sessions, user_responses, user_progress>>
    /\ UNCHANGED reminders
    /\ UNCHANGED training_statements

\* TrickEngine.clear_cache
ClearCache(t) ==
    /\ task[t].pc = "idle"
    /\ SetTask(t, "idle", task[t].session, NoArgs, [op |-> "clear_cache"])
    /\ tricks_cache' = <<>>
    /\ all_tricks_cache' = NoTricks
    /\ UNCHANGED <<learning_sessions, user_responses, user_progress>>
    /\ UNCHANGED reminders
    /\ UNCHANGED training_statements

\* FeedbackEngine._fallback_analysis(response, target_trick, statement), for
\* a target_trick that get_trick_by_id returned
FallbackAnalysis(t, response, target_trick_id) ==
    /\ task[t].pc = "idle"
    /\ TrickExists(target_trick_id)
    /\ LET cache == TrickCached(tricks_cache, target_trick_id)
           classification ==
                classify_response(cache, all_tricks_cache, response, target_trick_id)
           analysis == fallback_analysis(classification)
       IN  /\ SetTask(t, "idle", task[t].session, NoArgs,
                      [op |-> "_fallback_analysis", response |-> response,
                       target_trick_id |-> target_trick_id,
                       score |-> analysis.score, is_correct |-> analysis.is_correct,
                       classification |-> classification])
           /\ tricks_cache' = TricksCacheLoaded(cache, all_tricks_cache)
           /\ all_tricks_cache' = AllTricksCacheLoaded(all_tricks_cache)
    /\ UNCHANGED <<learning_sessions, user_responses, user_progress>>
    /\ UNCHANGED reminders
    /\ UNCHANGED training_statements

\* the trick ids looked up: the first two, the last one, the ones next to
\* the range
LookupIds == {0, 1, 2, NumTricks, NumTricks + 1}

NextTricks ==
    \E t \in Tasks :
        \/ \E trick_id \in LookupIds : GetTrickById(t, trick_id)
        \/ LoadTricks(t)
        \/ ClearCache(t)
        \/ \E response \in Responses, trick_id \in LookupIds :
                FallbackAnalysis(t, response, trick_id)

SpecTricks == Init /\ [][NextTricks]_vars

(***************************************************************************)
(* Properties.                                                             *)
(***************************************************************************)
Terminal == {"completed", "abandoned"}

HasActiveSession(u) ==
    \E i \in 1..Len(learning_sessions) :
        learning_sessions[i].user_id = u /\ learning_sessions[i].status = "active"

\* task t takes a step
Steps(t) == task'[t] # task[t]

\* C1: in every reachable state each user has at most one session with
\* status active, also when two start_session calls for the same user
\* interleave at their awaits.
C1_AtMostOneActiveSession ==
    \A u \in Users :
        Cardinality({i \in 1..Len(learning_sessions) :
            learning_sessions[i].user_id = u /\ learning_sessions[i].status = "active"}) <= 1

\* the step returns to task t from the operation op
Returns(t, op) == ret'.op = op /\ ret'.task = t

\* task t takes the first step of start_session(u): it returns the session
\* found, or goes on to pick a statement
StartsSession(t, u) ==
    /\ task[t].pc = "idle"
    /\ \/ task'[t].pc = "start_pick" /\ task'[t].args.user_id = u
       \/ /\ Returns(t, "start_session")
          /\ "existing" \in DOMAIN ret'
          /\ ret'.existing
          /\ ret'.user_id = u

\* C2: start_session(u) for a user with an active session returns that session
\* with the same id, creates no session row and changes neither the cursor nor
\* the statement; called right after a start_session(u) that returned a
\* session, it returns the same id.
C2_StartSessionIdempotent ==
    [][\A t \in Tasks, u \in Users :
        (StartsSession(t, u) /\ HasActiveSession(u)) =>
            /\ Returns(t, "start_session")
            /\ ret'.id \in 1..Len(learning_sessions)
            /\ learning_sessions[ret'.id].user_id = u
            /\ learning_sessions[ret'.id].status = "active"
            /\ learning_sessions' = learning_sessions
            /\ task'[t].session.id = ret'.id
            /\ task'[t].session.current_trick_index =
                    learning_sessions[ret'.id].current_trick_index
            /\ task'[t].session.statement_id = learning_sessions[ret'.id].statement_id
            /\ (ret.op = "start_session" /\ "id" \in DOMAIN ret /\ ret.user_id = u) =>
                    ret'.id = ret.id
            /\ \A other \in Tasks \ {t} : task'[other] = task[other]
      ]_vars

\* start_session returned the session that existed, its cursor already moved
C2_Witness ==
    /\ ret.op = "start_session"
    /\ "existing" \in DOMAIN ret
    /\ ret.existing
    /\ Len(learning_sessions) = 1
    /\ learning_sessions[ret.id].current_trick_index > 0

\* C3: once the status of a session is completed or abandoned, no call changes
\* it again, whatever session object the call is made with.
C3_TerminalStatusIsFinal ==
    [][\A i \in 1..Len(learning_sessions) :
        learning_sessions[i].status \in Terminal =>
            learning_sessions'[i].status = learning_sessions[i].status
      ]_vars

\* task t makes a call update_session_progress(session, k)
UpdatesSessionProgress(t) ==
    \/ Returns(t, "update_session_progress")
    \/ Steps(t) /\ task[t].pc \in {"advance", "handler_update"}

\* the k of that call
CompletedTrickId(t) ==
    IF task[t].pc = "advance" THEN task[t].args.trick_id
    ELSE IF task[t].pc = "handler_update" THEN task[t].args.trick_id + 1
    ELSE ret'.completed_trick_id

\* C4: after update_session_progress(session, k) the cursor of the session, in
\* the object and in its row, is max(previous cursor, k): it never decreases.
C4_CursorIsMax ==
    [][\A t \in Tasks :
        UpdatesSessionProgress(t) =>
            LET session  == task[t].session
                k        == CompletedTrickId(t)
                previous == learning_sessions[session.id].current_trick_index
                expected == IF previous >= k THEN previous ELSE k
            IN  /\ task'[t].session.current_trick_index = expected
                /\ learning_sessions'[session.id].current_trick_index = expected
                /\ learning_sessions'[session.id].current_trick_index >= previous
      ]_vars

\* update_session_progress was called with a trick id below the cursor
C4_Witness ==
    /\ ret.op = "update_session_progress"
    /\ \E t \in Tasks :
        /\ task[t].session.id # 0
        /\ ret.completed_trick_id < task[t].session.current_trick_index
        /\ learning_sessions[task[t].session.id].current_trick_index = NumTricks

\* C5: the cursor current_trick_index of every session stays within 0..14,
\* also after skipping or moving past trick 14.
C5_CursorInRange ==
    \A i \in 1..Len(learning_sessions) :
        learning_sessions[i].current_trick_index \in 0..NumTricks

\* C6: get_next_challenge(session) returns none exactly when the cursor is at
\* least 14; below 14 it returns a challenge whose target_trick_id is the
\* cursor plus one; it changes neither the session nor any table.
C6_NextChallenge ==
    [][\A t \in Tasks :
        Returns(t, "get_next_challenge") =>
            LET cursor == task[t].session.current_trick_index
            IN  /\ ~ret'.challenge.found <=> cursor >= 14
                /\ cursor < 14 => ret'.challenge.target_trick_id = cursor + 1
                /\ UNCHANGED <<learning_sessions, user_responses, user_progress, task>>
      ]_vars

\* get_next_challenge returned none for a session whose cursor is 14
C6_Witness ==
    /\ ret.op = "get_next_challenge"
    /\ ~ret.challenge.found
    /\ \E t \in Tasks : task[t].session.current_trick_index = 14

\* C7: when process_user_response(session, text, trick) returns, one row for
\* (session, user, trick) has been appended to user_responses with the
\* oracle's score divided by 100; the progress row of (user, trick) counts one
\* more attempt, the correctness flag, and a mastery made from the raw score;
\* the cursor of the session is at least trick.
C7_ProcessUserResponse ==
    [][\A t \in Tasks :
        (Steps(t) /\ task[t].pc = "advance") =>
            LET a       == task[t].args
                before  == a.before
                session == task[t].session
                key     == <<session.user_id, a.trick_id>>
                correct == IF a.is_correct THEN 1 ELSE 0
            IN  /\ ret'.op = "process_user_response"
                /\ ret'.raised = "none"
                /\ Len(user_responses') = before.responses + 1
                /\ LET row == user_responses'[before.responses + 1]
                   IN  /\ row.session_id = session.id
                       /\ row.user_id = session.user_id
                       /\ row.trick_id = a.trick_id
                       /\ row.is_correct = a.is_correct
                       \* stored = (a.score / 2) / 100
                       /\ row.similarity_score.num * 2 * 100 = a.score * row.similarity_score.den
                /\ key \in DOMAIN user_progress'
                /\ LET progress == user_progress'[key]
                       exact    == (100 - 30) * before.progress.mastery_level * 2 + 30 * a.score
                   IN  /\ progress.total_attempts = before.progress.total_attempts + 1
                       /\ progress.correct_attempts = before.progress.correct_attempts + correct
                       \* the raw score: on a first attempt its integer part, later
                       \* 0.7 * mastery + 0.3 * score to within one point
                       /\ ~before.progress.found =>
                            /\ 2 * progress.mastery_level <= a.score
                            /\ a.score < 2 * progress.mastery_level + 2
                       /\ before.progress.found =>
                            /\ 2 * 100 * progress.mastery_level <= exact
                            /\ exact <= 2 * 100 * (progress.mastery_level + 1)
                /\ task'[t].session.current_trick_index >= a.trick_id
                /\ learning_sessions'[session.id].current_trick_index >= a.trick_id
      ]_vars

\* process_user_response returned for a second answer to the same trick, the
\* cursor already beyond it
C7_Witness ==
    /\ ret.op = "process_user_response"
    /\ ret.raised = "none"
    /\ Len(user_responses) = 2
    /\ user_responses[1].trick_id = 1
    /\ user_responses[2].trick_id = 1
    /\ user_progress[<<1, 1>>].total_attempts = 2
    /\ learning_sessions[user_responses[2].session_id].current_trick_index = NumTricks

\* the loop has ended: complete_session returned its summary
LoopDone ==
    /\ ret.op = "complete_session"
    /\ ret.summary.tricks_practiced = 14
    /\ Len(learning_sessions) = 1
    /\ learning_sessions[1].status = "completed"
    /\ task[1].session.status = "completed"
    /\ Len(user_responses) = 14
    /\ \A i \in 1..14 : user_responses[i].trick_id = i

\* C8: from a fresh session, answering every challenge get_next_challenge
\* returns ends: the challenges are the tricks 1..14 in order, it returns none
\* exactly after 14 scored responses, and complete_session then yields
\* status completed with tricks_practiced = 14.
C8_LoopTerminates ==
    /\ [](ret.op = "get_next_challenge" =>
            /\ ~ret.challenge.found <=> Len(user_responses) = 14
            /\ ret.challenge.found =>
                    ret.challenge.target_trick_id = Len(user_responses) + 1)
    /\ [](ret.op = "complete_session" => LoopDone)
    /\ <>LoopDone

\* the summary of the loop, five of its answers scored right
C8_Witness ==
    /\ ret.op = "complete_session"
    /\ ret.summary.tricks_practiced = 14
    /\ ret.summary.total_attempts = 14
    /\ ret.summary.correct_attempts = 5

\* C9: after any update_progress calls with scores in 0..100, every row of
\* user_progress has correct_attempts <= total_attempts and a mastery_level in
\* 0..100; the code keeps this itself, no call is rejected by a CHECK of the
\* table.
C9_ProgressWithinBounds ==
    /\ \A key \in DOMAIN user_progress :
        /\ user_progress[key].correct_attempts <= user_progress[key].total_attempts
        /\ user_progress[key].correct_attempts >= 0
        /\ user_progress[key].mastery_level >= 0
        /\ user_progress[key].mastery_level <= 100
    /\ ret.op = "update_progress" => ret.raised # "CheckViolationError"

\* a row updated after its first attempt, not every answer right
C9_Witness ==
    \E key \in DOMAIN user_progress :
        /\ user_progress[key].total_attempts = 2
        /\ user_progress[key].correct_attempts = 1
        /\ user_progress[key].mastery_level > 0

\* C10: update_progress on an existing row with mastery M and score S sets
\* mastery_level to 0.7 * M + 0.3 * S rounded to the nearest integer (the
\* clamp to 0..100 changes nothing for M and S in 0..100).
C10_MasteryIsRounded ==
    [][\A t \in Tasks :
        (Steps(t) /\ task[t].pc = "progress_write" /\ task[t].args.current_progress.found) =>
            LET a     == task[t].args
                key   == <<a.user_id, a.trick_id>>
                \* 200 times 0.7 * M + 0.3 * S, the score in half points
                exact == (100 - 30) * a.current_progress.mastery_level * 2 + 30 * a.score
                new   == 2 * 100 * user_progress'[key].mastery_level
            IN  /\ new - exact <= 100
                /\ exact - new <= 100
      ]_vars

\* the integer nearest to a score in half points, a tie going to the even
\* one, as round() of the language does
RoundScore(score) ==
    IF score % 2 = 0 THEN score \div 2
    ELSE IF ((score - 1) \div 2) % 2 = 0 THEN (score - 1) \div 2
         ELSE (score + 1) \div 2

\* C11: the first update_progress for a (user, trick) pair with no record
\* creates one with mastery_level = round(score), total_attempts = 1 and
\* correct_attempts = 1 if is_correct else 0; a later call updates that same
\* record and adds none.
C11_FirstProgressRecord ==
    [][\A t \in Tasks :
        (Steps(t) /\ task[t].pc = "progress_write") =>
            LET a   == task[t].args
                key == <<a.user_id, a.trick_id>>
            IN  IF key \notin DOMAIN user_progress
                THEN /\ DOMAIN user_progress' = DOMAIN user_progress \cup {key}
                     /\ user_progress'[key].mastery_level = RoundScore(a.score)
                     /\ user_progress'[key].total_attempts = 1
                     /\ user_progress'[key].correct_attempts = (IF a.is_correct THEN 1 ELSE 0)
                ELSE DOMAIN user_progress' = DOMAIN user_progress
      ]_vars

\* the days in a row with a practice, counted back from day
RECURSIVE ConsecutiveDays(_, _)
ConsecutiveDays(dates, day) ==
    IF day \in dates THEN 1 + ConsecutiveDays(dates, day - 1) ELSE 0

\* C12: the learning streak is the number of consecutive calendar days with a
\* practice, counted back from today, or from yesterday when today has none,
\* and stopping at the first gap: practice today and two days ago is a streak
\* of 1.
C12_StreakStopsAtGap ==
    ret.op = "_calculate_learning_streak" =>
        ret.streak =
            ConsecutiveDays(ret.practice_dates,
                            IF current_date \in ret.practice_dates
                            THEN current_date ELSE current_date - 1)

(***************************************************************************)
(* C13: whenever process_user_response has scored a response of a user and *)
(* returns, update_practice_timestamp has been invoked for that user: the  *)
(* user has a reminder_tracking row and its last_practice_date is the time *)
(* of the response.                                                        *)
(***************************************************************************)
C13_PracticeTimestamped ==
    [][\A t \in Tasks :
        (Steps(t) /\ task[t].pc = "advance" /\ Returns(t, "process_user_response")) =>
            LET user_id == task[t].session.user_id
            IN  /\ user_id \in DOMAIN reminder_tracking'
                /\ reminder_tracking'[user_id].last_practice_date = DateAt(now')
      ]_vars

\* the users of a list
Listed(l) == {l[k] : k \in DOMAIN l}

\* a date is NULL or at least seven days before now
SevenDaysOld(date) == date.is_null \/ now - date.at >= 7 * 24

\* the eligibility query is answered in this step
Queries == scheduler.pc = "query" /\ scheduler'.pc # "query"

Sends == scheduler.pc = "send" /\ Len(telegram'.attempts) = Len(telegram.attempts) + 1

\* the user the batch is at
Reached == scheduler.users_to_remind[scheduler.index]

(***************************************************************************)
(* C15: at the moment the daily batch sends to a user, the user's          *)
(* reminders are enabled, also when the user has called                    *)
(* toggle_reminders(user, false) after the eligibility list was computed   *)
(* and before the loop reached the user.                                   *)
(***************************************************************************)
C15_SendsOnlyToEnabled ==
    [][Sends => reminder_tracking[Reached].reminders_enabled]_vars

\* the last send of the batch was answered: the bot was blocked by the user
Blocked ==
    /\ telegram.attempts # <<>>
    /\ telegram.attempts[Len(telegram.attempts)] = [user_id |-> Reached, outcome |-> "blocked"]

InBatch(sched) == sched.pc \in {"send", "update", "disable"}

\* the sends of the batch so far are one to each of the first n users of the
\* list the query returned, in its order
SentToFirst(attempts, users, n) ==
    /\ Len(attempts) = n
    /\ n <= Len(users)
    /\ \A k \in 1..n : attempts[k].user_id = users[k]
    /\ \A k, l \in 1..n : attempts[k].user_id = attempts[l].user_id => k = l

(***************************************************************************)
(* C17: in a daily batch every user the eligibility query returned gets    *)
(* exactly one send, whatever the sends to the users before answered: a    *)
(* failed send is not repeated, and the batch ends only after the send to  *)
(* the last user of the list.                                              *)
(***************************************************************************)
C17_OneAttemptEach ==
    [][/\ InBatch(scheduler') =>
            SentToFirst(telegram'.attempts, scheduler'.users_to_remind,
                        IF scheduler'.pc = "send" THEN scheduler'.index - 1
                        ELSE scheduler'.index)
       /\ (InBatch(scheduler) /\ ~InBatch(scheduler')) =>
            SentToFirst(telegram'.attempts, scheduler.users_to_remind,
                        Len(scheduler.users_to_remind))
      ]_vars

\* a batch of two users is over: the send to the first failed, the second
\* user was sent to all the same
C17_Witness ==
    /\ scheduler.pc = "sleep"
    /\ Len(telegram.attempts) = 2
    /\ telegram.attempts[1].outcome = "failed"
    /\ telegram.attempts[2].outcome \in {"blocked", "failed"}
    /\ telegram.attempts[1].user_id # telegram.attempts[2].user_id

\* seven days or more have passed since the last reminder that reached the user
SevenDaysSinceDelivery(user_id) ==
    user_id \in DOMAIN telegram.delivered => now - telegram.delivered[user_id] >= 7 * 24

Alive == scheduler.pc \notin {"finished", "cancelled"}

\* the back-off sleep or the sleep until the check ends after the end of
\* the model's time
BeyondHorizon == scheduler.pc \in {"sleep", "backoff"} /\ scheduler.next_run > MaxDays * 24

(***************************************************************************)
(* C19: an unexpected exception in an iteration of the scheduler loop does *)
(* not end the loop task: the task sleeps for 1 hour and enters the loop   *)
(* again; as long as is_running is true the task is alive, and after the   *)
(* exception the daily check runs again (unless the scheduler is stopped). *)
(***************************************************************************)
C19_BackoffAndRetry ==
    /\ [](scheduler.is_running => Alive)
    /\ [][/\ errors' # errors =>
                /\ scheduler'.pc = "backoff"
                /\ scheduler'.is_running
                /\ scheduler'.next_run = now' + 1
          /\ (scheduler.pc = "backoff" /\ scheduler'.pc # "backoff" /\ scheduler'.is_running) =>
                /\ now' = scheduler.next_run
                /\ scheduler'.pc = "sleep"
         ]_vars
    /\ (scheduler.pc = "backoff") ~>
            (scheduler.pc = "query" \/ ~scheduler.is_running \/ BeyondHorizon)

\* after a batch an iteration raised; the task has slept the hour and the
\* sleep until the next check, and the check runs again
C19_Witness ==
    /\ errors = 1
    /\ scheduler.is_running
    /\ scheduler.pc = "query"
    /\ telegram.attempts # <<>>

\* stop returns in this step
Stops == ret'.op = "stop" /\ ret' # ret

(***************************************************************************)
(* C20: stop() on a running scheduler cancels the loop task wherever it is *)
(* suspended (in the sleep until the next check, in the back-off sleep, at *)
(* a send or an UPDATE of a batch) and returns without raising; when it    *)
(* has returned is_running is false, the task has ended, and the task      *)
(* sends no reminder and writes no row any more.                           *)
(***************************************************************************)
C20_StopCancels ==
    [][/\ (scheduler.is_running /\ ~scheduler'.is_running) =>
            /\ Stops
            /\ ret'.raised = "none"
            /\ scheduler'.pc \in {"finished", "cancelled"}
            /\ UNCHANGED <<telegram, reminder_tracking>>
       /\ (scheduler.pc # "none" /\ ~scheduler.is_running) =>
            /\ ~scheduler'.is_running
            /\ scheduler'.pc = scheduler.pc
            /\ telegram' = telegram
            /\ \A user_id \in DOMAIN reminder_tracking :
                    /\ reminder_tracking'[user_id].last_reminder_date
                            = reminder_tracking[user_id].last_reminder_date
                    /\ reminder_tracking'[user_id].reminder_count
                            = reminder_tracking[user_id].reminder_count
       /\ telegram'.attempts # telegram.attempts => scheduler.is_running
      ]_vars

\* stop has returned: it cancelled the task in its back-off sleep
C20_Witness ==
    /\ ret.op = "stop"
    /\ ret.raised = "none"
    /\ ret.cancelled_at = "backoff"
    /\ ~scheduler.is_running
    /\ scheduler.pc = "cancelled"
    /\ errors = 1

\* the task is in a process_user_response whose oracle call failed
OracleFailed(t) ==
    /\ task[t].pc \in {"progress_read", "progress_write", "advance"}
    /\ task[t].args.op = "process_user_response"
    /\ task[t].args.oracle # "answered"

(***************************************************************************)
(* C21: process_user_response never surfaces a failure of the Scoring      *)
(* Oracle.  When the oracle call raises or its output does not parse, the  *)
(* call stores the UserResponse with a score of the keyword classifier,    *)
(* goes on through the progress update without raising, advances the       *)
(* cursor and returns its Feedback; only an unknown trick makes it raise.  *)
(***************************************************************************)
C21_OracleFailureDegrades ==
    [][\A t \in {1} :
        /\ (task[t].pc = "idle" /\ Returns(t, "process_user_response")) =>
                ret'.raised = "ValueError"
        /\ (task[t].pc = "idle" /\ task'[t].pc = "progress_read"
                /\ task'[t].args.op = "process_user_response") =>
                LET a == task'[t].args
                IN  /\ Len(user_responses') = Len(user_responses) + 1
                    /\ user_responses'[Len(user_responses')].trick_id = a.trick_id
                    /\ user_responses'[Len(user_responses')].is_correct = a.is_correct
                    /\ user_responses'[Len(user_responses')].similarity_score.num * 2 * 100
                            = a.score * user_responses'[Len(user_responses')].similarity_score.den
                    /\ a.oracle # "answered" =>
                            /\ a.score \in {0, 50, 100, 150, 200}
                            /\ a.is_correct <=> a.score >= 2 * 30
        /\ (OracleFailed(t) /\ Steps(t)) =>
                IF task[t].pc = "advance"
                THEN /\ Returns(t, "process_user_response")
                     /\ ret'.raised = "none"
                     /\ <<task[t].args.user_id, task[t].args.trick_id>> \in DOMAIN user_progress
                     /\ user_progress[<<task[t].args.user_id, task[t].args.trick_id>>].total_attempts
                            = task[t].args.before.progress.total_attempts + 1
                     /\ learning_sessions'[task[t].session.id].current_trick_index
                            >= task[t].args.trick_id
                ELSE OracleFailed(t)'
      ]_vars

\* process_user_response has returned its Feedback for a response the oracle
\* raised on, scored 25.0 by the classifier and stored as wrong
C21_Witness ==
    /\ ret.op = "process_user_response"
    /\ ret.raised = "none"
    /\ Len(user_responses) = 1
    /\ user_responses[1].similarity_score = [num |-> 50, den |-> 2 * 100]
    /\ ~user_responses[1].is_correct
    /\ ~all_tricks_cache.is_none
    /\ user_progress[<<test_user_id, 1>>].total_attempts = 1

(***************************************************************************)
(* C22: in fallback mode the score of a response is                        *)
(* matched_keywords / total_keywords * 100 over the keywords of the target *)
(* trick, however many keywords of other tricks the response contains.     *)
(* (Scores are in half points: score / 2 = matched / total * 100.)         *)
(***************************************************************************)
C22_FallbackScore ==
    ret.op = "_fallback_analysis" =>
        LET own == language_tricks[ret.target_trick_id].keywords
        IN  ret.score * Cardinality(own) = 2 * 100 * Cardinality(own \cap ret.response)

\* the responses of a session, and the ones of a score of 80 or more
ResponsesOf(session_id) ==
    {i \in 1..Len(user_responses) : user_responses[i].session_id = session_id}

ScoredEighty(i) ==
    100 * user_responses[i].similarity_score.num >= 80 * user_responses[i].similarity_score.den

(***************************************************************************)
(* C23: complete_session sets the status of the session to completed and   *)
(* stamps completed_at; its summary reports as tricks_practiced the number *)
(* of distinct tricks with a response in the session, as total_attempts    *)
(* the number of its responses, as correct_attempts the number of its      *)
(* correct responses, and as mastered in the session exactly the tricks    *)
(* with a response of the session scoring 80 or more.                      *)
(***************************************************************************)
C23_SessionSummary ==
    [][\A t \in {1} :
        /\ (Steps(t) /\ task[t].pc = "idle" /\ task'[t].pc = "complete_stats") =>
                /\ learning_sessions'[task[t].session.id].status = "completed"
                /\ learning_sessions'[task[t].session.id].completed_at # "NULL"
        /\ (Steps(t) /\ task[t].pc = "complete_stats") =>
                LET rows == ResponsesOf(task[t].session.id)
                    summary == ret'.summary
                IN  /\ Returns(t, "complete_session")
                    /\ learning_sessions[task[t].session.id].status = "completed"
                    /\ learning_sessions[task[t].session.id].completed_at # "NULL"
                    /\ task'[t].session.status = "completed"
                    /\ task'[t].session.completed_at # "NULL"
                    /\ summary.tricks_practiced
                            = Cardinality({user_responses[i].trick_id : i \in rows})
                    /\ summary.total_attempts = Cardinality(rows)
                    /\ summary.correct_attempts
                            = Cardinality({i \in rows : user_responses[i].is_correct})
                    /\ summary.correct_attempts <= summary.total_attempts
                    /\ summary.tricks_practiced <= summary.total_attempts
                    /\ summary.tricks_practiced <= 14
                    /\ summary.mastered_tricks
                            = {k \in 1..14 : \E i \in rows :
                                    user_responses[i].trick_id = k /\ ScoredEighty(i)}
      ]_vars

\* a session of two responses to two tricks is completed: the one scored 80.0
\* and wrong is mastered, the one scored 79.5 and right is not
C23_Witness ==
    /\ ret.op = "complete_session"
    /\ ret.summary.tricks_practiced = 2
    /\ ret.summary.total_attempts = 2
    /\ ret.summary.correct_attempts = 1
    /\ ret.summary.mastered_tricks = {1}
    /\ user_responses[1].similarity_score = [num |-> 159, den |-> 2 * 100]
    /\ user_responses[2].similarity_score = [num |-> 160, den |-> 2 * 100]
    /\ ~user_responses[2].is_correct

\* the mastery levels of a user's progress records
MasteryLevels(user_id) ==
    [k \in {key \in DOMAIN user_progress : key[1] = user_id} |->
        user_progress[k].mastery_level]

\* the sum of the values of a function
RECURSIVE SumOf(_)
SumOf(f) ==
    IF DOMAIN f = {} THEN 0
    ELSE LET k == CHOOSE k \in DOMAIN f : TRUE
         IN  f[k] + SumOf([j \in DOMAIN f \ {k} |-> f[j]])

\* hard when the average is 70 or more, medium when it is 40 or more and less
\* than 70, easy otherwise and without a progress record
DifficultyFor(levels) ==
    LET n == Cardinality(DOMAIN levels)
    IN  IF n > 0 /\ SumOf(levels) >= 70 * n THEN "hard"
        ELSE IF n > 0 /\ SumOf(levels) >= 40 * n /\ SumOf(levels) < 70 * n THEN "medium"
        ELSE "easy"

(***************************************************************************)
(* C24: a start_session that creates a session picks a statement of the    *)
(* difficulty given by the user's average mastery over the practiced       *)
(* tricks (hard from 70, medium from 40 and below 70, easy otherwise and   *)
(* for a user without progress records), and the new session has cursor 0  *)
(* and status active.                                                      *)
(***************************************************************************)
C24_AdaptiveDifficulty ==
    [][\A t \in {1} :
        /\ (Steps(t) /\ task[t].pc = "start_pick") =>
                /\ task'[t].pc = "start_insert"
                /\ training_statements[task'[t].args.statement_id]
                        = DifficultyFor(MasteryLevels(task[t].args.user_id))
        /\ (Steps(t) /\ task[t].pc = "start_insert") =>
                /\ Len(learning_sessions') = Len(learning_sessions) + 1
                /\ LET row == learning_sessions'[Len(learning_sessions')]
                   IN  /\ row.user_id = task[t].args.user_id
                       /\ row.statement_id = task[t].args.statement_id
                       /\ row.status = "active"
                       /\ row.current_trick_index = 0
                /\ task'[t].session.id = Len(learning_sessions')
                /\ task'[t].session.status = "active"
                /\ task'[t].session.current_trick_index = 0
      ]_vars

\* a session on a hard statement has been created for a user whose two
\* masteries, 70 and 70, average 70
C24_Witness ==
    /\ ret.op = "start_session"
    /\ ~ret.existing
    /\ training_statements[learning_sessions[ret.id].statement_id] = "hard"
    /\ DOMAIN MasteryLevels(test_user_id) = {<<test_user_id, 1>>, <<test_user_id, NumTricks>>}
    /\ \A k \in DOMAIN MasteryLevels(test_user_id) : MasteryLevels(test_user_id)[k] = 70

\* no statement of the table has the difficulty; "none" asks for any statement
NoStatementAt(difficulty) ==
    \A i \in 1..Len(training_statements) :
        difficulty # "none" /\ training_statements[i] # difficulty

(***************************************************************************)
(* C25: get_random_statement raises ValueError exactly when no statement   *)
(* has the requested difficulty, and a start_session that meets this       *)
(* failure ends with the error, inserts no session, leaves the user        *)
(* without an active session and changes nothing else.                     *)
(***************************************************************************)
C25_NoStatementNoSession ==
    [][\A t \in {1} :
        /\ Returns(t, "get_random_statement") =>
                /\ (ret'.raised = "ValueError") <=> NoStatementAt(ret'.difficulty)
                /\ ret'.raised = "none" =>
                        /\ ret'.id \in 1..Len(training_statements)
                        /\ ret'.difficulty \in {"none", training_statements[ret'.id]}
                /\ UNCHANGED <<learning_sessions, user_responses, user_progress,
                               reminders, catalog>>
        /\ (/\ Steps(t)
            /\ task[t].pc = "start_pick"
            /\ NoStatementAt(DifficultyFor(MasteryLevels(task[t].args.user_id)))) =>
                /\ task'[t].pc = "idle"
                /\ ret'.op = "start_session"
                /\ ret'.raised = "ValueError"
                /\ learning_sessions' = learning_sessions
                /\ \A i \in 1..Len(learning_sessions') :
                        ~(/\ learning_sessions'[i].user_id = task[t].args.user_id
                          /\ learning_sessions'[i].status = "active")
                /\ UNCHANGED <<user_responses, user_progress, reminders, catalog>>
      ]_vars

\* start_session has failed for a user of average mastery 70 over a table
\* without hard statements, and the user has no session
C25_Witness ==
    /\ ret.op = "start_session"
    /\ "raised" \in DOMAIN ret
    /\ ret.raised = "ValueError"
    /\ training_statements = <<"easy", "medium">>
    /\ DifficultyFor(MasteryLevels(test_user_id)) = "hard"
    /\ learning_sessions = <<>>

(***************************************************************************)
(* C26: get_trick_by_id returns the catalog trick of the requested id for  *)
(* every id in 1..14 and raises ValueError for every other id, whatever    *)
(* the caches hold (empty at start or after clear_cache, filled by an      *)
(* earlier lookup or by load_tricks); a lookup that fails leaves the cache *)
(* as it was.                                                              *)
(***************************************************************************)
C26_TrickLookup ==
    [][\A t \in Tasks :
        Returns(t, "get_trick_by_id") =>
            /\ ret'.trick_id \in 1..NumTricks =>
                    /\ ret'.raised = "none"
                    /\ ret'.trick.id = ret'.trick_id
                    /\ ret'.trick = [id |-> ret'.trick_id, keywords |-> Keywords(ret'.trick_id)]
            /\ ret'.trick_id \notin 1..NumTricks =>
                    /\ ret'.raised = "ValueError"
                    /\ tricks_cache' = tricks_cache
            /\ all_tricks_cache' = all_tricks_cache
      ]_vars

\* the last trick has been served from the cache that an earlier lookup
\* filled, no load_tricks having run since the cache was last empty
C26_Witness ==
    /\ ret.op = "get_trick_by_id"
    /\ ret.trick_id = NumTricks
    /\ ret.raised = "none"
    /\ ret.cached
    /\ all_tricks_cache.is_none
    /\ DOMAIN tricks_cache = {1, NumTricks}

\* the recommendation the trick is due: needs practice with a mastery below
\* 50, new without a progress record, needs review with a mastery from 50 and
\* below 80 last practiced more than 7 days before, none otherwise
Due(progress_map, trick_id, at) ==
    IF trick_id \notin DOMAIN progress_map
    THEN [type |-> "new_trick", trick_id |-> trick_id, priority |-> 2]
    ELSE LET mastery == progress_map[trick_id].mastery_level
             hours   == at - progress_map[trick_id].last_practiced
         IN  IF mastery < 50
             THEN [type |-> "practice", trick_id |-> trick_id, priority |-> 1]
             ELSE IF mastery >= 50 /\ mastery < 80 /\ hours > 7 * HoursPerDay
             THEN [type |-> "review", trick_id |-> trick_id, priority |-> 3]
             ELSE [type |-> "none", trick_id |-> trick_id, priority |-> 0]

\* the recommendations due for the 14 tricks
AllDue(progress_map, at) ==
    {r \in {Due(progress_map, trick_id, at) : trick_id \in 1..NumTricks} : r.type # "none"}

\* x is ahead of y by priority, then by trick id
Ahead(x, y) ==
    \/ x.priority < y.priority
    \/ x.priority = y.priority /\ x.trick_id < y.trick_id

\* recs holds the first five, or all, of the recommendations due, in order
FirstFiveOf(recs, due) ==
    /\ Len(recs) = IF Cardinality(due) <= 5 THEN Cardinality(due) ELSE 5
    /\ \A i \in 1..Len(recs) : recs[i] \in due
    /\ \A i, j \in 1..Len(recs) : i < j => Ahead(recs[i], recs[j])
    /\ \A r \in due :
            (\A i \in 1..Len(recs) : recs[i] # r) =>
                \A i \in 1..Len(recs) : Ahead(recs[i], r)

(***************************************************************************)
(* C27: get_learning_recommendations returns at most 5 recommendations in  *)
(* the order of (priority, trick_id): a trick without progress record is   *)
(* new (priority 2), a trick of mastery below 50 needs practice (priority  *)
(* 1), a trick of mastery from 50 and below 80 last practiced more than 7  *)
(* days ago needs review (priority 3), and no other trick is recommended.  *)
(***************************************************************************)
C27_Recommendations ==
    ret.op = "get_learning_recommendations" =>
        FirstFiveOf(ret.recommendations, AllDue(ret.progress_map, ret.at))

(***************************************************************************)
(* C28: completed_at is null exactly while a session is active: a session  *)
(* that is completed or abandoned has a completed_at, an active one has    *)
(* none.                                                                   *)
(***************************************************************************)
C28_CompletedAtIffTerminal ==
    \A i \in 1..Len(learning_sessions) :
        (learning_sessions[i].status = "active")
            <=> (learning_sessions[i].completed_at = "NULL")

\* the sessions a cleanup is to abandon: active and started before the cutoff
Stale(old) == {i \in old : learning_sessions[i].status = "active"}

(***************************************************************************)
(* C29: cleanup_old_sessions turns into abandoned exactly the sessions     *)
(* that are active and were started more than days_old days ago, returns   *)
(* their number, and leaves every other session, every cursor and every    *)
(* response unchanged.                                                     *)
(***************************************************************************)
C29_CleanupFrame ==
    [][\A t \in Tasks :
        Returns(t, "cleanup_old_sessions") =>
            /\ ret'.raised = "none"
            /\ ret'.count = Cardinality(Stale(ret'.old))
            /\ Len(learning_sessions') = Len(learning_sessions)
            /\ \A i \in 1..Len(learning_sessions) :
                    IF i \in Stale(ret'.old)
                    THEN /\ learning_sessions'[i].status = "abandoned"
                         /\ learning_sessions'[i].current_trick_index
                                = learning_sessions[i].current_trick_index
                    ELSE learning_sessions'[i] = learning_sessions[i]
            /\ user_responses' = user_responses
      ]_vars

\* the user the scheduler is dispatching to at the given point
Dispatching(pc, user_id) ==
    /\ scheduler.pc = pc
    /\ scheduler.users_to_remind[scheduler.index] = user_id

\* the count and the date of the user's reminders are the same in both states
ReminderUntouched(user_id) ==
    /\ reminder_tracking'[user_id].reminder_count
            = reminder_tracking[user_id].reminder_count
    /\ reminder_tracking'[user_id].last_reminder_date
            = reminder_tracking[user_id].last_reminder_date

\* the step after a delivery counts it and dates it; a send that fails and
\* the step that follows it leave the count and the date
DispatchCounted ==
    \A user_id \in DOMAIN reminder_tracking :
        /\ (Dispatching("update", user_id) /\ scheduler' # scheduler) =>
                /\ reminder_tracking'[user_id].reminder_count
                        = reminder_tracking[user_id].reminder_count + 1
                /\ reminder_tracking'[user_id].last_reminder_date = DateAt(now')
        /\ (/\ Dispatching("send", user_id)
            /\ Len(telegram'.attempts) = Len(telegram.attempts) + 1
            /\ telegram'.attempts[Len(telegram'.attempts)].outcome # "sent") =>
                ReminderUntouched(user_id)
        /\ (Dispatching("send", user_id) /\ telegram' # telegram) =>
                ReminderUntouched(user_id)
        /\ (Dispatching("disable", user_id) /\ scheduler' # scheduler) =>
                ReminderUntouched(user_id)

\* the count starts at 0 and changes in no step but the one that follows a
\* delivery to the user
CountedOnlyWhenDelivered ==
    /\ \A user_id \in DOMAIN reminder_tracking' \ DOMAIN reminder_tracking :
            reminder_tracking'[user_id].reminder_count = 0
    /\ \A user_id \in DOMAIN reminder_tracking :
            reminder_tracking'[user_id].reminder_count
                    # reminder_tracking[user_id].reminder_count
                => Dispatching("update", user_id)

(***************************************************************************)
(* C30: a dispatch whose send succeeds adds 1 to the user's reminder_count *)
(* and sets last_reminder_date to the current time, a dispatch whose send  *)
(* fails leaves both, and so reminder_count is always the number of        *)
(* successful scheduled sends to the user.                                 *)
(***************************************************************************)
C30_CountIsSuccessfulSends ==
    [][DispatchCounted /\ CountedOnlyWhenDelivered]_vars

\* the user's row is written by a step that is not the scheduler's
PracticeWritten(user_id) ==
    /\ scheduler' = scheduler
    /\ reminder_tracking'[user_id].last_practice_date
            # reminder_tracking[user_id].last_practice_date

(***************************************************************************)
(* C31: on an existing reminder_tracking row the practice update and the   *)
(* scheduler's dispatch lose nothing of each other in any interleaving:    *)
(* the practice update sets last_practice_date and leaves                  *)
(* last_reminder_date and reminder_count, the write of the dispatch sets   *)
(* last_reminder_date and reminder_count and leaves last_practice_date.    *)
(***************************************************************************)
C31_DisjointWrites ==
    [][\A user_id \in DOMAIN reminder_tracking :
        /\ PracticeWritten(user_id) =>
                /\ reminder_tracking'[user_id].last_practice_date = DateAt(now)
                /\ ReminderUntouched(user_id)
                /\ reminder_tracking'[user_id].reminders_enabled
                        = reminder_tracking[user_id].reminders_enabled
        /\ (Dispatching("update", user_id) /\ scheduler' # scheduler) =>
                /\ reminder_tracking'[user_id].last_practice_date
                        = reminder_tracking[user_id].last_practice_date
                /\ reminder_tracking'[user_id].last_reminder_date = DateAt(now)
                /\ reminder_tracking'[user_id].reminder_count
                        = reminder_tracking[user_id].reminder_count + 1
      ]_vars

\* the user practiced while the dispatch was between its send and its write:
\* the send took the hour after the trigger, the practice is of that hour and
\* the write of the dispatch is the next step of the scheduler
C31_Witness ==
    \E user_id \in DOMAIN reminder_tracking :
        /\ Dispatching("update", user_id)
        /\ now % HoursPerDay = TriggerHour + 1
        /\ telegram.delivered[user_id] = now
        /\ reminder_tracking[user_id].last_practice_date = DateAt(now)
        /\ reminder_tracking[user_id].reminder_count = 0

\* the hour is 12:00 of some day
IsTrigger(hour) == hour % 24 = 12

(***************************************************************************)
(* C32: an iteration of the scheduler sleeps until the first 12:00 that is *)
(* strictly after the current time, today's when the time is before it and *)
(* tomorrow's otherwise, so the sleep is more than 0 and at most 24 hours; *)
(* the reminder check starts only when that sleep is over and only with    *)
(* is_running still true.                                                  *)
(***************************************************************************)
C32_NextTrigger ==
    [][/\ (scheduler'.pc = "sleep" /\ scheduler # scheduler') =>
                /\ IsTrigger(scheduler'.next_run)
                /\ scheduler'.next_run > now'
                /\ scheduler'.next_run - now' <= 24
                /\ \A hour \in (now' + 1)..(scheduler'.next_run - 1) : ~IsTrigger(hour)
                /\ scheduler'.next_run \div 24 =
                        IF now' % 24 < 12 THEN now' \div 24 ELSE now' \div 24 + 1
       /\ (scheduler'.pc = "query" /\ scheduler.pc # "query") =>
                /\ scheduler.pc = "sleep"
                /\ now' = scheduler.next_run
                /\ scheduler.is_running
                /\ scheduler'.is_running
       /\ (telegram' # telegram \/ scheduler'.users_to_remind # <<>>) =>
                scheduler.pc \in {"query", "send", "update", "disable"}
      ]_vars

\* the loop, entered at 12:00 sharp, sleeps until 12:00 of the next day
C32_Witness ==
    /\ scheduler.pc = "sleep"
    /\ scheduler.is_running
    /\ IsTrigger(now)
    /\ scheduler.next_run = now + 24

\* a response of the session is added by the step
ResponseAdded(session_id) ==
    /\ Len(user_responses') > Len(user_responses)
    /\ user_responses'[Len(user_responses')].session_id = session_id

\* a task writes the progress of a response to the session in the step
ProgressWritten(session_id) ==
    \E t \in Tasks :
        /\ task[t].pc = "progress_write"
        /\ task[t].args.op = "process_user_response"
        /\ task[t].session.id = session_id
        /\ user_progress' # user_progress

(***************************************************************************)
(* C33: a session whose stored status is completed or abandoned accepts no *)
(* work: no step adds a response to it, writes the progress of a response  *)
(* to it or changes its cursor, whatever session object the caller holds.  *)
(***************************************************************************)
C33_TerminalAcceptsNoWork ==
    [][\A i \in 1..Len(learning_sessions) :
        learning_sessions[i].status \in {"completed", "abandoned"} =>
            /\ ~ResponseAdded(i)
            /\ ~ProgressWritten(i)
            /\ learning_sessions'[i].current_trick_index
                    = learning_sessions[i].current_trick_index
      ]_vars

\* the stored responses of the user for the trick
ResponsesFor(user_id, trick_id) ==
    {i \in 1..Len(user_responses) :
        /\ user_responses[i].user_id = user_id
        /\ user_responses[i].trick_id = trick_id}

\* no process_user_response is between its INSERT and the end of its
\* update_progress
NoResponseInFlight ==
    \A t \in Tasks : task[t].pc \notin {"progress_read", "progress_write"}

(***************************************************************************)
(* C34: once the process_user_response calls have made their progress      *)
(* updates, total_attempts of every (user, trick) is the number of         *)
(* responses recorded for the user and the trick and correct_attempts the  *)
(* number of those that are correct, in any interleaving of the calls:     *)
(* concurrent responses to the same trick are both counted.                *)
(***************************************************************************)
C34_AttemptsCountResponses ==
    NoResponseInFlight =>
        \A user_id \in Users, trick_id \in 1..NumTricks :
            LET stored == ResponsesFor(user_id, trick_id)
                row == IF <<user_id, trick_id>> \in DOMAIN user_progress
                       THEN user_progress[<<user_id, trick_id>>]
                       ELSE [total_attempts |-> 0, correct_attempts |-> 0]
            IN  /\ row.total_attempts = Cardinality(stored)
                /\ row.correct_attempts =
                        Cardinality({i \in stored : user_responses[i].is_correct})

(***************************************************************************)
(* C35: the stored current_trick_index of a session never decreases, also  *)
(* when two tasks hold their own copies of the session, loaded at          *)
(* different times, and their update_session_progress calls interleave.    *)
(***************************************************************************)
C35_StoredCursorNeverDecreases ==
    [][\A i \in 1..Len(learning_sessions) :
        learning_sessions'[i].current_trick_index
            >= learning_sessions[i].current_trick_index
      ]_vars

\* the step is a handler showing a challenge of the session to the user
Presents(session_id) ==
    /\ ret' # ret
    /\ ret'.op \in {"learn_command", "continue_command"}
    /\ ret'.session_id = session_id
    /\ ret'.target_trick_id # 0

AliveTasks ==
    scheduler.other_tasks + (IF scheduler.pc \in {"none", "finished", "cancelled"} THEN 0 ELSE 1)

\* the step creates a loop task
TaskCreated ==
    \/ scheduler'.pc = "created" /\ scheduler.pc # "created"
    \/ scheduler'.other_tasks # scheduler.other_tasks

(***************************************************************************)
(* C37: at most one loop task of the scheduler is alive at any time: no    *)
(* task is created while is_running is true, and a start after a stop has  *)
(* returned creates one task, the task before it having ended.             *)
(***************************************************************************)
C37_OneLoopTask ==
    [][/\ AliveTasks <= 1
       /\ TaskCreated =>
            /\ ~scheduler.is_running
            /\ scheduler.pc \in {"none", "finished", "cancelled"}
            /\ scheduler'.is_running
            /\ scheduler'.other_tasks = scheduler.other_tasks
       /\ (scheduler.is_running /\ scheduler'.is_running) =>
            scheduler'.pc # "created" \/ scheduler.pc = "created"
      ]_vars

\* the scheduler has been started again after a stop that cancelled its task
\* in the middle of a batch: the new task is the only one
C37_Witness ==
    /\ ret.op = "stop"
    /\ ret.cancelled_at = "update"
    /\ scheduler.is_running
    /\ scheduler.pc = "created"
    /\ scheduler.other_tasks = 0

\* the record's mastery after the last update_progress call
MasteryAfterCall == IF ret.op = "update_mastery" THEN ret.mastery_level ELSE 0

(***************************************************************************)
(* C38: a progress record of a mastery below 80 whose update_progress      *)
(* calls all have scores of 80 or more reaches a mastery_level of 80 or    *)
(* more, is_mastered, after finitely many calls.                           *)
(***************************************************************************)
C38_EventuallyMastered ==
    (ret.op = "update_mastery" /\ ret.current_mastery < 80)
        ~> (MasteryAfterCall >= 80)


(***************************************************************************)
(* C39: in a session whose every response is submitted for the trick of    *)
(* the most recent get_next_challenge, every challenge get_next_challenge  *)
(* returns is for a trick with no stored response of that session, and     *)
(* the attempt_number it reports is 1.                                     *)
(***************************************************************************)
ScoredIn(session_id, trick_id) ==
    \E i \in 1..Len(user_responses) :
        /\ user_responses[i].session_id = session_id
        /\ user_responses[i].trick_id = trick_id

C39_FirstAttemptOnly ==
    \A t \in Tasks :
        (/\ ret.op = "get_next_challenge"
         /\ ret.task = t
         /\ ret.challenge.found)
            => /\ ret.challenge.attempt_number = 1
               /\ ~ScoredIn(task[t].session.id, ret.challenge.target_trick_id)

C39_Witness ==
    /\ ret.op = "get_next_challenge"
    /\ ret.challenge.found
    /\ ret.challenge.target_trick_id = NumTricks
    /\ ret.challenge.attempt_number = 1
    /\ \A trick_id \in 1..(NumTricks - 1) :
            ScoredIn(task[ret.task].session.id, trick_id)

====
